---- MODULE Spec2Model ----
(***************************************************************************)
(* Verification model of the omniviv synchronisation engine.               *)
(*                                                                         *)
(*   SpecDep    the departure sync tick  (server/src/sync.rs,              *)
(*              SyncManager::sync_all_departures, parse_departures)        *)
(*   SpecOsm    the OSM topology sync    (server/src/sync.rs,              *)
(*              sync_all_areas, sync_area; server/src/providers/osm.rs,    *)
(*              fetch_area_features, execute_with_retry, execute_request)  *)
(*   SpecStart  the start-up sequence and the two periodic loops           *)
(*              (server/src/sync.rs, SyncManager::start)                   *)
(*                                                                         *)
(* Each specification moves its own variables and leaves the others alone. *)
(***************************************************************************)
EXTENDS Integers, Sequences, FiniteSets, TLC

VARIABLES
    \* ---- departure sync (SyncManager::sync_all_departures) ----
    departures,     \* DepartureStore: IFOPT -> Absent | Entry(Vec<Departure>)
    dep_pc,         \* position inside the tick
    stop_ifopts,    \* the IFOPTs the topology query returned in this tick
    results,        \* Vec<(ifopt, Result<DepartureMonitor>)> of the batch fetch
    now,            \* Utc::now() taken by the tick (sync.rs:685)
    store_lock,     \* writer lock of the departure map
    before,         \* history: the departure map when the tick began
    last_outcome,   \* history: per IFOPT, how the previous tick's fetch ended
    \* ---- OSM sync (sync_all_areas, sync_area, fetch_area_features) ----
    db,             \* the committed topology store, as pool connections read it
    tx,             \* the open transaction's working copy, or NoTx
    osm_pc,         \* position inside sync_all_areas and its callees
    area_idx,       \* index of the area the for loop is at
    attempt,        \* sync_all_areas: attempt counter of the current area
    payload,        \* the OSM data this attempt fetches
    fetch_kind,     \* fetch_area_features: the fetch being executed (1..4)
    http_attempt,   \* execute_with_retry: loop variable `attempt`
    tx_step,        \* sync_area: next statement group of the transaction
    call_result,    \* result execute_with_retry has just returned
    attempt_result, \* result sync_area has just returned
    pre,            \* history: db when the current attempt began
    area_waits,     \* history: sleeps of the current area's retry loop
    attempted,      \* history: the areas sync_area was called for in this run
    last_area_outcome, \* history: how the last finished retry loop ended
    fetch_log,      \* history: fetch_* calls made by the current attempt
    fetch_error,    \* history: the fetch that failed in this attempt, or 0
    tx_opened,      \* history: whether this attempt began a transaction
    requests,       \* history: requests sent by the current call
    last_status,    \* history: the answer to the call's latest request
    http_waits,     \* history: sleeps of the current execute_with_retry call
    \* ---- SyncManager::start and the two periodic tasks ----
    main_pc,        \* where start() is
    osm_task,       \* where the spawned OSM loop is ("unspawned" before the spawn)
    efa_task,       \* where the spawned departure loop is
    osm_due,        \* ticks of the 6 h interval that are due and not yet taken
    efa_due,        \* ticks of the 30 s interval that are due and not yet taken
    initial_runs,   \* sync_all_areas runs executing that start() called
    periodic_runs,  \* sync_all_areas runs executing that the OSM loop called
    deps_running,   \* sync_all_departures runs executing
    initial_area,   \* the area the run that start() called is on (0: no such run)
    periodic_area,  \* the area the run that the OSM loop called is on (0: none)
    initial_done,   \* history: the run that start() called has returned
    efa_burst,      \* history: departure runs started since a 30 s deadline last passed
    \* ---- the persisted topology tables, row by row ----
    stations,       \* table stations: rows in insertion order
    platforms,      \* table platforms: rows in insertion order
    stop_positions, \* table stop_positions: rows in insertion order
    routes,         \* table routes: rows in insertion order
    route_ways,     \* table route_ways: rows in insertion order
    route_stops,    \* table route_stops: rows in insertion order
    last_sync,      \* history: the area and the routes of the latest sync_area
    link_done,      \* whether resolution step 1 has run on the drawn tables
    \* ---- the vehicle position tracker (VehiclePositionTracker) ----
    trams,          \* HashMap<String, TramState>: vehicle id -> Untracked | Tracked(state)
    positions,      \* HashMap<String, VehiclePosition>: the positions of the last tick
    last_update,    \* Utc::now() taken by the last tick, in seconds
    ticks,          \* calls of update so far
    snapshot,       \* history: the vehicles argument of the last tick
    seen_before,    \* history: per vehicle, last_seen_in_feed when the last tick began
    \* ---- extract_geometry_segment on its own ----
    ex_input,       \* the arguments drawn: the line's segments and the two stops
    ex_result,      \* None before the call, Some(returned Vec) after it
    \* ---- extract_station_platform_mappings on its own ----
    mp_input,       \* the station elements drawn
    mp_result,      \* None before the call, Some(returned HashMap) after it
    \* ---- history of the area syncs ----
    last_fetch,     \* the lists the last sync_area fetched, and what it found
    \* ---- parse_routes_response on its own ----
    pr_input,       \* the Overpass response drawn
    pr_result,      \* None before the call, Some(returned Vec<OsmRoute>) after it
    \* ---- the departure sync's loop over the results, step by step ----
    dep_applied     \* how many results of the tick the loop has applied

depVars == <<departures, dep_pc, stop_ifopts, results, now, store_lock, before, last_outcome>>

osmVars == <<db, tx, osm_pc, area_idx, attempt, payload, fetch_kind, http_attempt,
             tx_step, call_result, attempt_result, pre, area_waits, attempted,
             last_area_outcome, fetch_log, fetch_error, tx_opened, requests,
             last_status, http_waits>>

startVars == <<main_pc, osm_task, efa_task, osm_due, efa_due, initial_runs,
               periodic_runs, deps_running, initial_area, periodic_area,
               initial_done, efa_burst>>

topoVars == <<stations, platforms, stop_positions, routes, route_ways,
              route_stops, last_sync>>

linkVars == <<link_done>>

trackVars == <<trams, positions, last_update, ticks, snapshot, seen_before>>

extractVars == <<ex_input, ex_result>>
mappingVars == <<mp_input, mp_result>>
parseVars == <<pr_input, pr_result>>

vars == <<depVars, osmVars, startVars, topoVars, linkVars, trackVars, extractVars,
          mappingVars, last_fetch, parseVars, dep_applied>>

notDep == <<osmVars, startVars, topoVars, linkVars, trackVars, extractVars,
    mappingVars, last_fetch, parseVars, dep_applied>>
notOsm == <<depVars, startVars, topoVars, linkVars, trackVars, extractVars,
    mappingVars, last_fetch, parseVars, dep_applied>>
notStart == <<depVars, osmVars, topoVars, linkVars, trackVars, extractVars,
    mappingVars, last_fetch, parseVars, dep_applied>>
notTopo == <<depVars, osmVars, startVars, linkVars, trackVars, extractVars,
    mappingVars, parseVars, dep_applied>>
notLink == <<depVars, osmVars, startVars, stop_positions, routes, route_ways,
             route_stops, last_sync, trackVars, extractVars, mappingVars, last_fetch, parseVars, dep_applied>>
notTrack == <<depVars, osmVars, startVars, topoVars, linkVars, extractVars,
    mappingVars, last_fetch, parseVars, dep_applied>>
notExtract == <<depVars, osmVars, startVars, topoVars, linkVars, trackVars,
               mappingVars, last_fetch, parseVars, dep_applied>>
notMapping == <<depVars, osmVars, startVars, topoVars, linkVars, trackVars,
               extractVars, last_fetch, parseVars, dep_applied>>
notParse == <<depVars, osmVars, startVars, topoVars, linkVars, trackVars,
             extractVars, mappingVars, last_fetch, dep_applied>>
notDepLoop == <<osmVars, startVars, topoVars, linkVars, trackVars, extractVars,
               mappingVars, last_fetch, parseVars>>

-----------------------------------------------------------------------------
(* Option<T>: None is <<>>, Some(x) is <<x>>.                              *)
None == <<>>
Some(x) == <<x>>

(* HashMap::get on the departure map: Absent when the key is missing,      *)
(* Entry(v) when the key maps to the list v.                               *)
Absent == <<>>
Entry(v) == <<v>>

(* The stop IFOPTs that can be stored in the topology tables.              *)
Ifopts == {"X", "Y"}

(* Timestamp texts. A text is either the RFC 3339 rendering of an instant  *)
(* (seconds) or a text that is no RFC 3339 timestamp.                      *)
Ts(t) == [rfc3339 |-> TRUE, secs |-> t]
BadTs == [rfc3339 |-> FALSE, secs |-> 0]

(* DateTime::parse_from_rfc3339: Ok(instant) or Err.                       *)
parse_from_rfc3339(s) ==
    IF s.rfc3339 THEN [ok |-> TRUE, dt |-> s.secs] ELSE [ok |-> FALSE, dt |-> 0]

(* Rust integer division truncates toward zero.                            *)
TruncDiv(a, b) == IF a >= 0 THEN a \div b ELSE -((-a) \div b)

(* A stop event of the departure monitor, reduced to what parse_departures *)
(* reads: line_number(), destination(), planned_departure(),               *)
(* estimated_departure(), platform().                                      *)
StopEvent(line, dest, planned, estimated) ==
    [line_number |-> line, destination |-> dest, planned_departure |-> planned,
     estimated_departure |-> estimated, platform |-> None]

EvOnTime   == StopEvent(Some("1"), Some("Hbf"), Some(Ts(60)), None)
EvLate     == StopEvent(Some("2"), Some("Uni"), Some(Ts(120)), Some(Ts(210)))
EvEarly    == StopEvent(Some("2"), Some("Hbf"), Some(Ts(120)), Some(Ts(30)))
EvSame     == StopEvent(Some("3"), Some("Uni"), Some(Ts(60)), Some(Ts(60)))
EvBadTime  == StopEvent(Some("3"), Some("Hbf"), Some(BadTs), Some(Ts(60)))
EvNoLine   == StopEvent(None, Some("Hbf"), Some(Ts(120)), None)
EvNoDest   == StopEvent(Some("1"), None, Some(Ts(120)), None)
EvNoPlan   == StopEvent(Some("1"), Some("Hbf"), None, None)

(* The stop_events lists the departure monitor answers with.               *)
Responses ==
    { <<>>,
      <<EvOnTime>>,
      <<EvLate, EvEarly>>,
      <<EvSame, EvBadTime>>,
      <<EvNoLine, EvNoDest, EvNoPlan>> }

(* Result<DepartureMonitor>: Ok(response) or Err.                          *)
OkResult(events) == [ok |-> TRUE, stop_events |-> events]
ErrResult == [ok |-> FALSE, stop_events |-> <<>>]
FetchResults == {ErrResult} \cup {OkResult(r) : r \in Responses}

(* The instants Utc::now() returns to a tick. The wall clock is not        *)
(* monotonic, so a tick's now is independent of the previous tick's.       *)
Nows == {0, 60, 121}

-----------------------------------------------------------------------------
(* sync.rs:747-751, "skip departures in the past": the planned text parses *)
(* and its instant is before now.                                          *)
IsPastOrNow(p, t) == p.ok /\ p.dt <= t

IsPast(p, t) == p.ok /\ p.dt < t

(* SyncManager::parse_departures, one stop event: the departure it yields, *)
(* or nothing when the event is skipped.                                   *)
ParseEvent(stop_ifopt, event, t) ==
    IF event.line_number = None THEN <<>>
    ELSE IF event.destination = None THEN <<>>
    ELSE IF event.planned_departure = None THEN <<>>
    ELSE
      LET planned == event.planned_departure[1]
          p == parse_from_rfc3339(planned)
          estimated == event.estimated_departure
          delay_minutes ==
              IF estimated = None THEN None
              ELSE LET e == parse_from_rfc3339(estimated[1])
                   IN IF p.ok /\ e.ok
                      THEN Some(TruncDiv(e.dt - p.dt, 60))
                      ELSE None
      IN IF IsPast(p, t) THEN <<>>
         ELSE << [stop_ifopt |-> stop_ifopt,
                  line_number |-> event.line_number[1],
                  destination |-> event.destination[1],
                  planned_departure |-> planned,
                  estimated_departure |-> estimated,
                  delay_minutes |-> delay_minutes,
                  platform |-> event.platform] >>

RECURSIVE parse_departures(_, _, _)
parse_departures(stop_ifopt, stop_events, t) ==
    IF stop_events = <<>> THEN <<>>
    ELSE ParseEvent(stop_ifopt, Head(stop_events), t)
         \o parse_departures(stop_ifopt, Tail(stop_events), t)

(* One iteration of the loop over the batch results (sync.rs:691-710):     *)
(* the store after the result of one IFOPT has been applied.               *)
ApplyResultDropsOnError(store, ifopt, result, t) ==
    IF result.ok
    THEN LET deps == parse_departures(ifopt, result.stop_events, t)
         IN IF deps = <<>> THEN [store EXCEPT ![ifopt] = Absent]
            ELSE [store EXCEPT ![ifopt] = Entry(deps)]
    ELSE [store EXCEPT ![ifopt] = Absent]

ApplyResultMerges(store, ifopt, result, t) ==
    IF result.ok
    THEN LET deps == parse_departures(ifopt, result.stop_events, t)
         IN IF deps = <<>> THEN [store EXCEPT ![ifopt] = Absent]
            ELSE IF store[ifopt] = Absent THEN [store EXCEPT ![ifopt] = Entry(deps)]
            ELSE [store EXCEPT ![ifopt] = Entry(store[ifopt][1] \o deps)]
    ELSE store

ApplyResultKeepsOnEmpty(store, ifopt, result, t) ==
    IF result.ok
    THEN LET deps == parse_departures(ifopt, result.stop_events, t)
         IN IF deps = <<>> THEN store
            ELSE [store EXCEPT ![ifopt] = Entry(deps)]
    ELSE store

ApplyResultStoresEmpty(store, ifopt, result, t) ==
    IF result.ok
    THEN [store EXCEPT ![ifopt] = Entry(parse_departures(ifopt, result.stop_events, t))]
    ELSE store

ApplyResult(store, ifopt, result, t) ==
    IF result.ok
    THEN LET deps == parse_departures(ifopt, result.stop_events, t)
         IN IF deps = <<>> THEN [store EXCEPT ![ifopt] = Absent]
            ELSE [store EXCEPT ![ifopt] = Entry(deps)]
    ELSE store

(* The whole loop `for (ifopt, result) in results`.                        *)
RECURSIVE ApplyResults(_, _, _)
ApplyResults(store, rs, t) ==
    IF rs = <<>> THEN store
    ELSE ApplyResults(ApplyResult(store, Head(rs)[1], Head(rs)[2], t), Tail(rs), t)

(* EfaClient::get_departures_batch: one (ifopt, result) pair per requested *)
(* IFOPT, in no guaranteed order.                                          *)
BatchResults(ifopts) ==
    { rs \in UNION { [1..n -> ifopts \X FetchResults] : n \in {Cardinality(ifopts)} } :
        \A i, j \in DOMAIN rs : i # j => rs[i][1] # rs[j][1] }

(* The result the batch holds for an IFOPT.                                *)
ResultOf(rs, ifopt) ==
    LET i == CHOOSE k \in DOMAIN rs : rs[k][1] = ifopt IN rs[i][2]

Fetched(rs) == { rs[i][1] : i \in DOMAIN rs }

OutcomeOf(rs, ifopt) ==
    IF ifopt \notin Fetched(rs) THEN "none"
    ELSE IF ResultOf(rs, ifopt).ok THEN "ok" ELSE "err"

-----------------------------------------------------------------------------
(* The departure sync tick.                                                *)

DepInit ==
    /\ departures = [i \in Ifopts |-> Absent]
    /\ dep_pc = "idle"
    /\ stop_ifopts = {}
    /\ results = <<>>
    /\ now = 0
    /\ store_lock = "free"
    /\ before = [i \in Ifopts |-> Absent]
    /\ last_outcome = [i \in Ifopts |-> "none"]
    /\ dep_applied = 0

(* sync.rs:644-667, the topology query fails: the tick returns.            *)
DepQueryFails ==
    /\ dep_pc = "idle"
    /\ UNCHANGED depVars
    /\ UNCHANGED notDep

(* sync.rs:644-675: the distinct non-null IFOPTs of stations, platforms    *)
(* and stop_positions; the tick returns when there are none.               *)
DepQuery ==
    /\ dep_pc = "idle"
    /\ \E rows \in SUBSET Ifopts :
         IF rows = {}
         THEN UNCHANGED depVars
         ELSE /\ stop_ifopts' = rows
              /\ dep_pc' = "queried"
              /\ before' = departures
              /\ UNCHANGED <<departures, results, now, store_lock, last_outcome>>
    /\ UNCHANGED notDep

(* sync.rs:678-685: the batch fetch has returned, then now is taken.       *)
DepFetch ==
    /\ dep_pc = "queried"
    /\ \E rs \in BatchResults(stop_ifopts), t \in Nows :
         /\ results' = rs
         /\ now' = t
    /\ dep_pc' = "fetched"
    /\ UNCHANGED <<departures, stop_ifopts, store_lock, before, last_outcome>>
    /\ UNCHANGED notDep

(* sync.rs:689: the writer lock is acquired.                               *)
DepLock ==
    /\ dep_pc = "fetched"
    /\ store_lock = "free"
    /\ store_lock' = "writer"
    /\ dep_pc' = "locked"
    /\ UNCHANGED <<departures, stop_ifopts, results, now, before, last_outcome>>
    /\ UNCHANGED notDep

(* sync.rs:691-710: every result is applied under the lock.                *)
DepApply ==
    /\ dep_pc = "locked"
    /\ departures' = ApplyResults(departures, results, now)
    /\ dep_pc' = "applied"
    /\ UNCHANGED <<stop_ifopts, results, now, store_lock, before, last_outcome>>
    /\ UNCHANGED notDep

(* sync.rs:713: the lock is released and the tick ends.                    *)
DepUnlock ==
    /\ dep_pc = "applied"
    /\ store_lock' = "free"
    /\ dep_pc' = "idle"
    /\ last_outcome' = [i \in Ifopts |-> OutcomeOf(results, i)]
    /\ stop_ifopts' = {}
    /\ results' = <<>>
    /\ now' = 0
    /\ before' = [i \in Ifopts |-> Absent]
    /\ UNCHANGED departures
    /\ UNCHANGED notDep

DepNext ==
    \/ DepQueryFails
    \/ DepQuery
    \/ DepFetch
    \/ DepLock
    \/ DepApply
    \/ DepUnlock

-----------------------------------------------------------------------------
(* The departure sync tick with the loop over the results taken one        *)
(* iteration at a time, and a reader of the departure map (the API         *)
(* handlers hold DepartureStore and call read()).                          *)

(* A variant of LockAfterIteration in which the guard is dropped after     *)
(* each result, as if write() were called inside the loop.                 *)
LockReleasedAfterIteration(k, n) == "free"

(* sync.rs:689-713: the guard `store` lives from before the loop to the    *)
(* drop after it, so the lock is still held after iteration k of n.        *)
LockAfterIteration(k, n) == "writer"

(* sync.rs:691-710, one iteration of the loop.                             *)
DepApplyOne ==
    /\ dep_pc = "locked"
    /\ store_lock = "writer"
    /\ dep_applied < Len(results)
    /\ LET k == dep_applied + 1
       IN /\ departures' = ApplyResult(departures, results[k][1], results[k][2], now)
          /\ dep_applied' = k
          /\ store_lock' = LockAfterIteration(k, Len(results))
    /\ UNCHANGED <<dep_pc, stop_ifopts, results, now, before, last_outcome>>
    /\ UNCHANGED notDepLoop

(* The loop has consumed every result.                                     *)
DepApplyEnd ==
    /\ dep_pc = "locked"
    /\ store_lock = "writer"
    /\ dep_applied = Len(results)
    /\ dep_pc' = "applied"
    /\ dep_applied' = 0
    /\ UNCHANGED <<departures, stop_ifopts, results, now, store_lock, before,
                   last_outcome>>
    /\ UNCHANGED notDepLoop

(* A handler's departures.read().await is granted while no writer holds    *)
(* the lock.                                                               *)
ReaderAcquire ==
    /\ store_lock = "free"
    /\ store_lock' = "reader"
    /\ UNCHANGED <<departures, dep_pc, stop_ifopts, results, now, before, last_outcome>>
    /\ UNCHANGED notDep

(* The handler drops its read guard.                                       *)
ReaderRelease ==
    /\ store_lock = "reader"
    /\ store_lock' = "free"
    /\ UNCHANGED <<departures, dep_pc, stop_ifopts, results, now, before, last_outcome>>
    /\ UNCHANGED notDep

DepLockNext ==
    \/ DepQueryFails
    \/ DepQuery
    \/ DepFetch
    \/ DepLock
    \/ DepApplyOne
    \/ DepApplyEnd
    \/ DepUnlock
    \/ ReaderAcquire
    \/ ReaderRelease

-----------------------------------------------------------------------------
(* The OSM topology sync.                                                  *)

(* Retry configuration of the Overpass client (osm.rs:10-11) and of        *)
(* sync_all_areas (sync.rs:102).                                           *)
MAX_RETRIES == 3
INITIAL_RETRY_DELAY_SECS == 5
max_retries == 5

(* The configured areas, in configuration order.                           *)
NumAreas == 2
Areas == 1..NumAreas

(* Whether the area's transport types contain tram or bus: only then do    *)
(* fetch_stations, fetch_platforms and fetch_stop_positions build a query  *)
(* (osm.rs:93-95, 156-158, 189-191). Odd areas are tram areas, even areas  *)
(* list only types without element queries (subway, train, ferry).         *)
HasElementQueries(a) == a % 2 = 1

(* What an attempt can bring: the OSM snapshot it fetched together with    *)
(* the time it runs at. 0 stands for "no rows" / NULL.                     *)
MaxPayload == 2
Payloads == 1..MaxPayload

(* The four fetches of fetch_area_features, by position.                   *)
FetchNames == <<"stations", "platforms", "stop_positions", "routes">>
NumFetches == Len(FetchNames)

(* Whether the fetch issues an Overpass request for this area; fetch_routes *)
(* always does (osm.rs:206-233).                                           *)
NeedsRequest(a, k) == FetchNames[k] = "routes" \/ HasElementQueries(a)

(* Answers to one HTTP request (osm.rs:284-317): a parseable 2xx body, a   *)
(* 2xx body that is not valid JSON, a network fault, or an error status.   *)
HttpOutcomes == {"ok", "ok_bad_json", "network", "http_429", "http_5xx", "http_4xx"}

(* OsmClient::execute_request: the Result for an answer.                   *)
execute_request(o) ==
    IF o \in {"ok", "ok_bad_json"} THEN [ok |-> TRUE, err |-> "", body |-> o]
    ELSE IF o = "network" THEN [ok |-> FALSE, err |-> "NetworkError", body |-> ""]
    ELSE IF o \in {"http_429", "http_5xx"}
         THEN [ok |-> FALSE, err |-> "RetryableError", body |-> ""]
    ELSE [ok |-> FALSE, err |-> "NetworkError", body |-> ""]

(* OsmError::is_retryable.                                                 *)
is_retryable(err) == err \in {"NetworkError", "RetryableError"}

(* A variant of retry_delay whose exponent is off by one.                  *)
retry_delay_off_by_one(a) == INITIAL_RETRY_DELAY_SECS * 2^a

(* execute_with_retry: the delay slept before attempt number `a` (a > 0).  *)
retry_delay(a) == INITIAL_RETRY_DELAY_SECS * 2^(a - 1)

(* A variant of wait_secs that does not grow with the attempt.             *)
wait_secs_constant(a) == 30

(* sync_all_areas: the wait after failed attempt number `a`.               *)
wait_secs(a) == 30 * a

(* query_overpass / query_overpass_raw: serde_json::from_str on the body.  *)
ParsesAsJson(body) == body = "ok"

(* A variant of OnFetchError that defaults the failed fetch and goes on.   *)
OnFetchErrorContinues(k) == "continue"

(* fetch_area_features: what `?` does with a failed fetch.                 *)
OnFetchError(k) == "return_err"

(* A variant of AfterExhausted that returns from sync_all_areas.           *)
AfterExhaustedReturns(i) == [pc |-> "done", idx |-> i]

(* sync_all_areas: where the for loop goes when an area's retry loop ends  *)
(* (`break`): the next area, or the end of the run after the last one.     *)
AfterArea(i) ==
    IF i < NumAreas THEN [pc |-> "loop", idx |-> i + 1]
    ELSE [pc |-> "done", idx |-> i]

(* sync_all_areas: the same, taken from the `attempt >= max_retries` arm.  *)
AfterExhausted(i) == AfterArea(i)

(* ---- the topology store ----                                            *)

(* The transaction slot: NoTx, or OpenTx(t) with working copy t.           *)
NoTx == <<>>
OpenTx(t) == <<t>>

(* A store holds, per area: whether the areas row exists, which payload    *)
(* the rows of each feature table come from, which payload the resolved    *)
(* links were computed from, and which attempt set last_synced_at.         *)
EmptyArea ==
    [area_row |-> FALSE, stations |-> 0, platforms |-> 0, stop_positions |-> 0,
     routes |-> 0, resolved |-> 0, last_synced_at |-> 0]

(* sync_area, statement groups of the transaction in order.                *)
TxSteps == <<"upsert_area", "store_stations", "store_platforms",
             "store_stop_positions", "store_routes", "resolve_relations",
             "update_last_synced_at", "commit">>
NumTxSteps == Len(TxSteps)

(* The effect of one statement group on a store.                           *)
WriteStep(d, step, a, p) ==
    LET s == TxSteps[step] IN
    IF s = "upsert_area" THEN [d EXCEPT ![a].area_row = TRUE]
    ELSE IF s = "store_stations" THEN [d EXCEPT ![a].stations = p]
    ELSE IF s = "store_platforms" THEN [d EXCEPT ![a].platforms = p]
    ELSE IF s = "store_stop_positions" THEN [d EXCEPT ![a].stop_positions = p]
    ELSE IF s = "store_routes" THEN [d EXCEPT ![a].routes = p]
    ELSE IF s = "resolve_relations" THEN [d EXCEPT ![a].resolved = d[a].platforms]
    ELSE IF s = "update_last_synced_at" THEN [d EXCEPT ![a].last_synced_at = p]
    ELSE d

(* A variant of TxExec that runs the statement on the pool (`&self.pool`)  *)
(* as well, outside the transaction.                                       *)
TxExecOnPool(d, t, step, a, p) ==
    [db |-> WriteStep(d, step, a, p), tx |-> WriteStep(t, step, a, p)]

(* A statement executed on the transaction (`&mut **tx`): the committed    *)
(* store and the transaction's copy afterwards.                            *)
TxExec(d, t, step, a, p) == [db |-> d, tx |-> WriteStep(t, step, a, p)]

(* The store after every statement group of a sync of area a with payload  *)
(* p has been applied to d.                                                *)
FullySynced(d, a, p) ==
    [d EXCEPT ![a] = [area_row |-> TRUE, stations |-> p, platforms |-> p,
                      stop_positions |-> p, routes |-> p, resolved |-> p,
                      last_synced_at |-> p]]

(* tx.commit(): the committed store afterwards.                            *)
Commit(d, t) == t

(* The transaction is dropped on an early return: the committed store.     *)
Rollback(d, t) == d

(* What a statement of a concurrent task (the departure sync's IFOPT       *)
(* query at sync.rs:659, an API handler) reads through the pool while the  *)
(* store is d and a transaction holds the working copy t.                  *)
PoolRead(d, t) == d

-----------------------------------------------------------------------------
NoResult == [ok |-> TRUE, err |-> "", body |-> ""]

OsmInit ==
    /\ db = [a \in Areas |-> EmptyArea]
    /\ tx = NoTx
    /\ osm_pc = "idle"
    /\ area_idx = 1
    /\ attempt = 0
    /\ payload = 0
    /\ fetch_kind = 1
    /\ http_attempt = 0
    /\ tx_step = 1
    /\ call_result = NoResult
    /\ attempt_result = "none"
    /\ pre = [a \in Areas |-> EmptyArea]
    /\ area_waits = <<>>
    /\ attempted = {}
    /\ last_area_outcome = "none"
    /\ fetch_log = <<>>
    /\ fetch_error = 0
    /\ tx_opened = FALSE
    /\ requests = 0
    /\ last_status = "none"
    /\ http_waits = <<>>

(* The first fetch at or after k that issues a request.                    *)
NextRequestFetch(a, k) ==
    CHOOSE h \in k..NumFetches :
        /\ NeedsRequest(a, h)
        /\ \A j \in k..(h - 1) : ~NeedsRequest(a, j)

(* fetch_area_features goes on with fetch k: fetches that build no query   *)
(* return Ok at once, the first one that does starts execute_with_retry.   *)
(* (The 2 s sleeps between the fetches change no state.)                   *)
StartFetches(k) ==
    LET h == NextRequestFetch(area_idx, k) IN
    /\ fetch_kind' = h
    /\ fetch_log' = fetch_log \o [i \in 1..(h - k + 1) |-> FetchNames[k + i - 1]]
    /\ osm_pc' = "request"
    /\ UNCHANGED payload

(* fetch k returned Ok: the next fetch, or, after the last one, back in    *)
(* sync_area with the features.                                            *)
FetchReturnedOk(k) ==
    IF k < NumFetches
    THEN StartFetches(k + 1)
    ELSE /\ osm_pc' = "begin"
         /\ \E p \in Payloads \ {db[area_idx].last_synced_at} : payload' = p
         /\ UNCHANGED <<fetch_kind, fetch_log>>

(* sync_area returns to the match in sync_all_areas.                       *)
SyncAreaReturns(res) ==
    /\ attempt_result' = res
    /\ osm_pc' = "attempt_done"

(* sync_all_areas is called (by start, or by the periodic loop).           *)
OsmRunStart ==
    /\ osm_pc \in {"idle", "done"}
    /\ osm_pc' = "loop"
    /\ area_idx' = 1
    /\ attempt' = 0
    /\ area_waits' = <<>>
    /\ attempted' = {}
    /\ last_area_outcome' = "none"
    /\ UNCHANGED <<db, tx, payload, fetch_kind, http_attempt, tx_step, call_result,
                   attempt_result, pre, fetch_log, fetch_error, tx_opened,
                   requests, last_status, http_waits>>
    /\ UNCHANGED notOsm

(* sync.rs:105-107 and 124-132, osm.rs:32-38: the loop counts the attempt  *)
(* and calls sync_area, which calls fetch_area_features.                   *)
OsmSyncArea ==
    /\ osm_pc = "loop"
    /\ attempt' = attempt + 1
    /\ attempted' = attempted \cup {area_idx}
    /\ pre' = db
    /\ LET h == NextRequestFetch(area_idx, 1) IN
         /\ fetch_kind' = h
         /\ fetch_log' = [i \in 1..h |-> FetchNames[i]]
         /\ osm_pc' = "request"
    /\ UNCHANGED <<db, tx, area_idx, payload, http_attempt, tx_step, call_result,
                   attempt_result, area_waits, last_area_outcome, fetch_error,
                   tx_opened, requests, last_status, http_waits>>
    /\ UNCHANGED notOsm

(* osm.rs:262-274 with 281-318: one request of execute_with_retry.         *)
OsmRequest ==
    /\ osm_pc = "request"
    /\ \E o \in HttpOutcomes :
         LET r == execute_request(o) IN
         /\ last_status' = o
         /\ requests' = requests + 1
         /\ IF r.ok
            THEN /\ call_result' = r
                 /\ osm_pc' = "returned"
                 /\ UNCHANGED http_attempt
            ELSE IF is_retryable(r.err)
            THEN IF http_attempt + 1 < MAX_RETRIES
                 THEN /\ http_attempt' = http_attempt + 1
                      /\ osm_pc' = "backoff"
                      /\ UNCHANGED call_result
                 ELSE /\ call_result' = r
                      /\ osm_pc' = "returned"
                      /\ UNCHANGED http_attempt
            ELSE /\ call_result' = r
                 /\ osm_pc' = "returned"
                 /\ UNCHANGED http_attempt
    /\ UNCHANGED <<db, tx, area_idx, attempt, payload, fetch_kind, tx_step,
                   attempt_result, pre, area_waits, attempted, last_area_outcome,
                   fetch_log, fetch_error, tx_opened, http_waits>>
    /\ UNCHANGED notOsm

(* osm.rs:256-260: the sleep before a retry.                               *)
OsmBackoff ==
    /\ osm_pc = "backoff"
    /\ http_waits' = Append(http_waits, retry_delay(http_attempt))
    /\ last_status' = "none"
    /\ osm_pc' = "request"
    /\ UNCHANGED <<db, tx, area_idx, attempt, payload, fetch_kind, http_attempt,
                   tx_step, call_result, attempt_result, pre, area_waits, attempted,
                   last_area_outcome, fetch_log, fetch_error, tx_opened, requests>>
    /\ UNCHANGED notOsm

(* osm.rs:236-249, 321-332 and 38-56: execute_with_retry has returned; the *)
(* body is parsed, and fetch_area_features goes on or returns the error.   *)
OsmAfterCall ==
    /\ osm_pc = "returned"
    /\ requests' = 0
    /\ last_status' = "none"
    /\ http_waits' = <<>>
    /\ http_attempt' = 0
    /\ call_result' = NoResult
    /\ IF call_result.ok /\ ParsesAsJson(call_result.body)
       THEN /\ FetchReturnedOk(fetch_kind)
            /\ UNCHANGED <<fetch_error, attempt_result>>
       ELSE /\ fetch_error' = fetch_kind
            /\ IF OnFetchError(fetch_kind) = "return_err"
               THEN /\ SyncAreaReturns("err")
                    /\ UNCHANGED <<fetch_kind, fetch_log, payload>>
               ELSE /\ FetchReturnedOk(fetch_kind)
                    /\ UNCHANGED attempt_result
    /\ UNCHANGED <<db, tx, area_idx, attempt, tx_step, pre, area_waits, attempted,
                   last_area_outcome, tx_opened>>
    /\ UNCHANGED notOsm

(* sync.rs:148-152: pool.begin(), which can fail.                          *)
OsmBegin ==
    /\ osm_pc = "begin"
    /\ \E ok \in BOOLEAN :
         IF ok
         THEN /\ tx' = OpenTx(db)
              /\ tx_opened' = TRUE
              /\ osm_pc' = "tx"
              /\ UNCHANGED attempt_result
         ELSE /\ SyncAreaReturns("err")
              /\ UNCHANGED <<tx, tx_opened>>
    /\ UNCHANGED <<db, area_idx, attempt, payload, fetch_kind, http_attempt, tx_step,
                   call_result, pre, area_waits, attempted, last_area_outcome,
                   fetch_log, fetch_error, requests, last_status, http_waits>>
    /\ UNCHANGED notOsm

(* sync.rs:155-171: one statement group succeeds inside the transaction.   *)
OsmTxWrite ==
    /\ osm_pc = "tx"
    /\ TxSteps[tx_step] # "commit"
    /\ LET e == TxExec(db, tx[1], tx_step, area_idx, payload) IN
         /\ db' = e.db
         /\ tx' = OpenTx(e.tx)
    /\ tx_step' = tx_step + 1
    /\ UNCHANGED <<osm_pc, area_idx, attempt, payload, fetch_kind, http_attempt,
                   call_result, attempt_result, pre, area_waits, attempted,
                   last_area_outcome, fetch_log, fetch_error, tx_opened, requests,
                   last_status, http_waits>>
    /\ UNCHANGED notOsm

(* sync.rs:174-179: tx.commit() succeeds and sync_area returns Ok.         *)
OsmCommit ==
    /\ osm_pc = "tx"
    /\ TxSteps[tx_step] = "commit"
    /\ db' = Commit(db, tx[1])
    /\ tx' = NoTx
    /\ SyncAreaReturns("ok")
    /\ UNCHANGED <<area_idx, attempt, payload, fetch_kind, http_attempt, tx_step,
                   call_result, pre, area_waits, attempted, last_area_outcome,
                   fetch_log, fetch_error, tx_opened, requests, last_status,
                   http_waits>>
    /\ UNCHANGED notOsm

(* sync.rs:155-176: the statement group at tx_step (the commit included)   *)
(* fails; `?` returns the error and the transaction is dropped.            *)
OsmTxFail ==
    /\ osm_pc = "tx"
    /\ db' = Rollback(db, tx[1])
    /\ tx' = NoTx
    /\ SyncAreaReturns("err")
    /\ UNCHANGED <<area_idx, attempt, payload, fetch_kind, http_attempt, tx_step,
                   call_result, pre, area_waits, attempted, last_area_outcome,
                   fetch_log, fetch_error, tx_opened, requests, last_status,
                   http_waits>>
    /\ UNCHANGED notOsm

(* sync.rs:107-118: the match on sync_area's result.                       *)
OsmAfterAttempt ==
    /\ osm_pc = "attempt_done"
    /\ IF attempt_result = "ok"
       THEN LET n == AfterArea(area_idx) IN
            /\ last_area_outcome' = "ok"
            /\ osm_pc' = n.pc
            /\ area_idx' = n.idx
            /\ attempt' = 0
            /\ area_waits' = <<>>
       ELSE IF attempt >= max_retries
       THEN LET n == AfterExhausted(area_idx) IN
            /\ last_area_outcome' = "failed"
            /\ osm_pc' = n.pc
            /\ area_idx' = n.idx
            /\ attempt' = 0
            /\ area_waits' = <<>>
       ELSE /\ osm_pc' = "area_wait"
            /\ UNCHANGED <<last_area_outcome, area_idx, attempt, area_waits>>
    /\ attempt_result' = "none"
    /\ payload' = 0
    /\ fetch_kind' = 1
    /\ tx_step' = 1
    /\ fetch_log' = <<>>
    /\ fetch_error' = 0
    /\ tx_opened' = FALSE
    /\ pre' = db
    /\ UNCHANGED <<db, tx, http_attempt, call_result, attempted, requests,
                   last_status, http_waits>>
    /\ UNCHANGED notOsm

(* sync.rs:114-116: the sleep before the next attempt.                     *)
OsmAreaWait ==
    /\ osm_pc = "area_wait"
    /\ area_waits' = Append(area_waits, wait_secs(attempt))
    /\ osm_pc' = "loop"
    /\ UNCHANGED <<db, tx, area_idx, attempt, payload, fetch_kind, http_attempt,
                   tx_step, call_result, attempt_result, pre, fetch_log,
                   fetch_error, tx_opened, requests, last_status, http_waits,
                   attempted, last_area_outcome>>
    /\ UNCHANGED notOsm

OsmNext ==
    \/ OsmRunStart
    \/ OsmSyncArea
    \/ OsmRequest
    \/ OsmBackoff
    \/ OsmAfterCall
    \/ OsmBegin
    \/ OsmTxWrite
    \/ OsmCommit
    \/ OsmTxFail
    \/ OsmAfterAttempt
    \/ OsmAreaWait

-----------------------------------------------------------------------------
(* SyncManager::start and the two periodic tasks it spawns. A run of       *)
(* sync_all_areas or sync_all_departures is one call, from its start to    *)
(* its return; what a run does is modelled above.                          *)

(* Ticks that can be due at once: an interval whose ticks were missed      *)
(* keeps them due (tokio's default MissedTickBehavior::Burst).             *)
MaxDue == 2

(* Runs of one kind counted as executing at once.                          *)
MaxRuns == 2

(* A variant of AfterInitialCall in which the initial run is started but   *)
(* not awaited.                                                            *)
AfterInitialCallNoAwait == "spawn_osm"

(* start, sync.rs:61: where start() is after calling sync_all_areas: it    *)
(* awaits the run.                                                         *)
AfterInitialCall == "initial_sync"

(* A variant of AfterDeparturesCall in which the loop does not await the   *)
(* run.                                                                    *)
AfterDeparturesCallNoAwait == "tick"

(* start, sync.rs:86-87: where the departure loop is after calling         *)
(* sync_all_departures: it awaits the run.                                 *)
AfterDeparturesCall == "syncing"

(* start, sync.rs:73-74: the same for the OSM loop and sync_all_areas.     *)
AfterAreasCall == "syncing"

StartInit ==
    /\ main_pc = "start"
    /\ osm_task = "unspawned"
    /\ efa_task = "unspawned"
    /\ osm_due = 0
    /\ efa_due = 0
    /\ initial_runs = 0
    /\ periodic_runs = 0
    /\ deps_running = 0
    /\ initial_area = 0
    /\ periodic_area = 0
    /\ initial_done = FALSE
    /\ efa_burst = 0

(* sync.rs:61: start() calls sync_all_areas.                               *)
StartInitialSync ==
    /\ main_pc = "start"
    /\ initial_runs' = initial_runs + 1
    /\ initial_area' = 1
    /\ main_pc' = AfterInitialCall
    /\ UNCHANGED <<osm_task, efa_task, osm_due, efa_due, periodic_runs,
                   deps_running, initial_done, periodic_area>>
    /\ UNCHANGED efa_burst
    /\ UNCHANGED notStart

(* sync.rs:101-119: the run that start() called is done with an area (its *)
(* retries included) and goes on to the next.                              *)
InitialSyncNextArea ==
    /\ initial_runs > 0
    /\ initial_area < NumAreas
    /\ initial_area' = initial_area + 1
    /\ UNCHANGED <<main_pc, osm_task, efa_task, osm_due, efa_due, initial_runs,
                   periodic_runs, deps_running, initial_done, periodic_area>>
    /\ UNCHANGED efa_burst
    /\ UNCHANGED notStart

(* The run that start() called returns after its last area; start(), if    *)
(* awaiting it, goes on.                                                   *)
InitialSyncReturns ==
    /\ initial_runs > 0
    /\ initial_area = NumAreas
    /\ initial_runs' = initial_runs - 1
    /\ initial_area' = 0
    /\ initial_done' = TRUE
    /\ main_pc' = IF main_pc = "initial_sync" THEN "spawn_osm" ELSE main_pc
    /\ UNCHANGED <<osm_task, efa_task, osm_due, efa_due, periodic_runs, deps_running,
                   periodic_area>>
    /\ UNCHANGED efa_burst
    /\ UNCHANGED notStart

(* sync.rs:64-76: tokio::spawn of the OSM loop.                            *)
SpawnOsmLoop ==
    /\ main_pc = "spawn_osm"
    /\ osm_task' = "spawned"
    /\ main_pc' = "spawn_efa"
    /\ UNCHANGED <<efa_task, osm_due, efa_due, initial_runs, periodic_runs,
                   deps_running, initial_done, initial_area, periodic_area>>
    /\ UNCHANGED efa_burst
    /\ UNCHANGED notStart

(* sync.rs:79-89: tokio::spawn of the departure loop; start() then joins   *)
(* the two handles.                                                        *)
SpawnEfaLoop ==
    /\ main_pc = "spawn_efa"
    /\ efa_task' = "spawned"
    /\ main_pc' = "join"
    /\ UNCHANGED <<osm_task, osm_due, efa_due, initial_runs, periodic_runs,
                   deps_running, initial_done, initial_area, periodic_area>>
    /\ UNCHANGED efa_burst
    /\ UNCHANGED notStart

(* sync.rs:66-67: the OSM task creates its interval, whose first tick is   *)
(* due at once.                                                            *)
OsmLoopCreateInterval ==
    /\ osm_task = "spawned"
    /\ osm_due' = 1
    /\ osm_task' = "skip_tick"
    /\ UNCHANGED <<main_pc, efa_task, efa_due, initial_runs, periodic_runs,
                   deps_running, initial_done, initial_area, periodic_area>>
    /\ UNCHANGED efa_burst
    /\ UNCHANGED notStart

(* sync.rs:69: the first tick is taken and dropped.                        *)
OsmLoopSkipTick ==
    /\ osm_task = "skip_tick"
    /\ osm_due > 0
    /\ osm_due' = osm_due - 1
    /\ osm_task' = "tick"
    /\ UNCHANGED <<main_pc, efa_task, efa_due, initial_runs, periodic_runs,
                   deps_running, initial_done, initial_area, periodic_area>>
    /\ UNCHANGED efa_burst
    /\ UNCHANGED notStart

(* sync.rs:72-73: a due tick is taken and sync_all_areas is called.        *)
OsmLoopTick ==
    /\ osm_task = "tick"
    /\ osm_due > 0
    /\ periodic_runs < MaxRuns
    /\ osm_due' = osm_due - 1
    /\ periodic_runs' = periodic_runs + 1
    /\ periodic_area' = 1
    /\ osm_task' = AfterAreasCall
    /\ UNCHANGED <<main_pc, efa_task, efa_due, initial_runs, deps_running,
                   initial_done, initial_area>>
    /\ UNCHANGED efa_burst
    /\ UNCHANGED notStart

(* sync.rs:101-119: the run the OSM loop called goes on to its next area.  *)
PeriodicSyncNextArea ==
    /\ periodic_runs > 0
    /\ periodic_area < NumAreas
    /\ periodic_area' = periodic_area + 1
    /\ UNCHANGED <<main_pc, osm_task, efa_task, osm_due, efa_due, initial_runs,
                   periodic_runs, deps_running, initial_done, initial_area>>
    /\ UNCHANGED efa_burst
    /\ UNCHANGED notStart

(* The run the OSM loop called returns after its last area; the loop, if   *)
(* awaiting it, goes back to its tick.                                     *)
PeriodicSyncReturns ==
    /\ periodic_runs > 0
    /\ periodic_area = NumAreas
    /\ periodic_runs' = periodic_runs - 1
    /\ periodic_area' = 0
    /\ osm_task' = IF osm_task = "syncing" THEN "tick" ELSE osm_task
    /\ UNCHANGED <<main_pc, efa_task, osm_due, efa_due, initial_runs, deps_running,
                   initial_done, initial_area>>
    /\ UNCHANGED efa_burst
    /\ UNCHANGED notStart

(* Six hours have passed since the interval's last deadline: while the     *)
(* loop waits with no tick due, or while its run is executing (a waiting   *)
(* loop takes a due tick long before the next deadline).                   *)
OsmDeadline ==
    /\ \/ osm_task = "syncing"
       \/ osm_task \in {"skip_tick", "tick"} /\ osm_due = 0
    /\ osm_due < MaxDue
    /\ osm_due' = osm_due + 1
    /\ UNCHANGED <<main_pc, osm_task, efa_task, efa_due, initial_runs, periodic_runs,
                   deps_running, initial_done, initial_area, periodic_area>>
    /\ UNCHANGED efa_burst
    /\ UNCHANGED notStart

(* sync.rs:81: the departure task starts with its 5 s sleep.               *)
EfaLoopSleep ==
    /\ efa_task = "spawned"
    /\ efa_task' = "sleep5"
    /\ UNCHANGED <<main_pc, osm_task, osm_due, efa_due, initial_runs, periodic_runs,
                   deps_running, initial_done, initial_area, periodic_area>>
    /\ UNCHANGED efa_burst
    /\ UNCHANGED notStart

(* sync.rs:83: after the sleep the task creates its interval, whose first  *)
(* tick is due at once.                                                    *)
EfaLoopCreateInterval ==
    /\ efa_task = "sleep5"
    /\ efa_due' = 1
    /\ efa_burst' = 0
    /\ efa_task' = "tick"
    /\ UNCHANGED <<main_pc, osm_task, osm_due, initial_runs, periodic_runs,
                   deps_running, initial_done, initial_area, periodic_area>>
    /\ UNCHANGED notStart

(* sync.rs:86-87: a due tick is taken and sync_all_departures is called.   *)
EfaLoopTick ==
    /\ efa_task = "tick"
    /\ efa_due > 0
    /\ deps_running < MaxRuns
    /\ efa_due' = efa_due - 1
    /\ deps_running' = deps_running + 1
    /\ efa_burst' = efa_burst + 1
    /\ efa_task' = AfterDeparturesCall
    /\ UNCHANGED <<main_pc, osm_task, osm_due, initial_runs, periodic_runs, initial_done, initial_area, periodic_area>>
    /\ UNCHANGED notStart

(* A sync_all_departures run returns; the loop, if awaiting it, goes back  *)
(* to its tick.                                                            *)
DeparturesSyncReturns ==
    /\ deps_running > 0
    /\ deps_running' = deps_running - 1
    /\ efa_task' = IF efa_task = "syncing" THEN "tick" ELSE efa_task
    /\ UNCHANGED <<main_pc, osm_task, osm_due, efa_due, initial_runs, periodic_runs,
                   initial_done, initial_area, periodic_area>>
    /\ UNCHANGED efa_burst
    /\ UNCHANGED notStart

(* Thirty seconds have passed since the interval's last deadline: while    *)
(* the loop waits with no tick due, or while its run is executing.         *)
EfaDeadline ==
    /\ \/ efa_task = "syncing"
       \/ efa_task = "tick" /\ efa_due = 0
    /\ efa_due < MaxDue
    /\ efa_due' = efa_due + 1
    /\ efa_burst' = 0
    /\ UNCHANGED <<main_pc, osm_task, efa_task, osm_due, initial_runs, periodic_runs,
                   deps_running, initial_done, initial_area, periodic_area>>
    /\ UNCHANGED notStart

StartNext ==
    \/ StartInitialSync
    \/ InitialSyncNextArea
    \/ InitialSyncReturns
    \/ SpawnOsmLoop
    \/ SpawnEfaLoop
    \/ OsmLoopCreateInterval
    \/ OsmLoopSkipTick
    \/ OsmLoopTick
    \/ PeriodicSyncNextArea
    \/ PeriodicSyncReturns
    \/ OsmDeadline
    \/ EfaLoopSleep
    \/ EfaLoopCreateInterval
    \/ EfaLoopTick
    \/ DeparturesSyncReturns
    \/ EfaDeadline

-----------------------------------------------------------------------------
(* The topology tables row by row: what the statements of one successful   *)
(* sync_area transaction write. Coordinates are in units of 0.0001 degree. *)
(* A NULL column is 0; OSM ids are positive.                               *)

NULL == 0

(* sync.rs:516 and 566: the link thresholds 0.005 and 0.0005 degree.       *)
max_station_degrees == 50
platform_threshold_degrees == 5

max_station_distance == max_station_degrees * max_station_degrees
platform_threshold == platform_threshold_degrees * platform_threshold_degrees

(* f64 squared planar distance as computed at sync.rs:523 and 571.         *)
Dist2(lat1, lon1, lat2, lon2) ==
    (lat1 - lat2) * (lat1 - lat2) + (lon1 - lon2) * (lon1 - lon2)

(* OsmElement values the Overpass answers are made of. coord is            *)
(* latitude()/longitude(): None for a relation without center. The role of *)
(* a member is an Option<String>.                                          *)
Member(ref, role) == [member_ref |-> ref, role |-> role]
Element(id, type, coord, members) ==
    [id |-> id, element_type |-> type, coord |-> coord, members |-> members]

St1 == Element(1, "relation", Some(<<0, 0>>),
               <<Member(13, Some("platform")), Member(21, Some("stop")),
                 Member(12, Some(""))>>)
St2 == Element(2, "relation", None, <<Member(12, Some("platform"))>>)
St3 == Element(3, "node", Some(<<40, 0>>), <<>>)
Pl12 == Element(12, "way", Some(<<100, 0>>), <<>>)
Pl13 == Element(13, "node", Some(<<30, 0>>), <<>>)
Sp21 == Element(21, "node", Some(<<100, 2>>), <<>>)
Sp22 == Element(22, "node", Some(<<30, 3>>), <<>>)
(* A node tagged both as platform and as stop position.                    *)
Pd14 == Element(14, "node", Some(<<30, 7>>), <<>>)

(* The lists a fetch can return, each in the answer's element order.       *)
SubSeqs(seq) ==
    LET n == Len(seq)
        Pick(S) == LET RECURSIVE Build(_)
                       Build(i) == IF i > n THEN <<>>
                                   ELSE IF i \in S THEN <<seq[i]>> \o Build(i + 1)
                                   ELSE Build(i + 1)
                   IN Build(1)
    IN { Pick(S) : S \in SUBSET (1..n) }

(* The configured bounding boxes (config.rs:23-28), as latitude ranges:    *)
(* area 1 covers every element, area 2 overlaps it, further areas overlap  *)
(* area 2.                                                                 *)
BoundingBox(a) ==
    IF a = 1 THEN [south |-> -10, north |-> 110]
    ELSE IF a = 2 THEN [south |-> -10, north |-> 45]
    ELSE [south |-> 35, north |-> 45]

(* Whether the Overpass query for the area's bounding box can return the   *)
(* element; a relation without center is found through its members.        *)
FoundIn(e, a) ==
    LET lat == IF e.coord # None THEN e.coord[1][1] ELSE Pl12.coord[1][1]
    IN BoundingBox(a).south <= lat /\ lat <= BoundingBox(a).north

StationLists(a) == SubSeqs(SelectSeq(<<St1, St2, St3>>, LAMBDA e : FoundIn(e, a)))
PlatformLists(a) == SubSeqs(SelectSeq(<<Pl12, Pl13>>, LAMBDA e : FoundIn(e, a)))
StopPositionLists(a) == SubSeqs(SelectSeq(<<Sp21>>, LAMBDA e : FoundIn(e, a)))

(* ---- table helpers ----                                                 *)

(* The index of the row with this osm_id, or 0.                            *)
RowIndex(table, id) ==
    IF \E i \in 1..Len(table) : table[i].osm_id = id
    THEN CHOOSE i \in 1..Len(table) : table[i].osm_id = id
    ELSE 0

HasRow(table, id) == RowIndex(table, id) # 0
RowOf(table, id) == table[RowIndex(table, id)]

(* SELECT ... WHERE area_id = a: the matching rows in row order.           *)
RowsOfArea(table, a) == SelectSeq(table, LAMBDA r : r.area_id = a)

(* OsmClient::extract_station_platform_mappings: member_ref -> station id  *)
(* for the members with role platform or stop of the relations, a later    *)
(* insert replacing an earlier one.                                        *)
unwrap_or(opt, default) == IF opt = None THEN default ELSE opt[1]

(* osm.rs:122-123: the roles whose members are mapped.                     *)
MapsEveryRole(role) == TRUE

IsMappedRole(role) == role = "platform" \/ role = "stop"

RECURSIVE MapMembers(_, _, _)
MapMembers(mappings, members, station_id) ==
    IF members = <<>> THEN mappings
    ELSE LET m == Head(members)
             next == IF IsMappedRole(unwrap_or(m.role, ""))
                     THEN [x \in (DOMAIN mappings) \cup {m.member_ref} |->
                             IF x = m.member_ref THEN station_id ELSE mappings[x]]
                     ELSE mappings
         IN MapMembers(next, Tail(members), station_id)

RECURSIVE extract_station_platform_mappings(_)
extract_station_platform_mappings(elems) ==
    IF elems = <<>> THEN [x \in {} |-> NULL]
    ELSE LET rest == extract_station_platform_mappings(SubSeq(elems, 1, Len(elems) - 1))
             st == elems[Len(elems)]
         IN IF st.element_type # "relation" THEN rest
            ELSE MapMembers(rest, st.members, st.id)

(* HashMap::get(..).copied() bound to the station_id parameter.            *)
MappedStation(map, id) == IF id \in DOMAIN map THEN map[id] ELSE NULL

(* INSERT ... ON CONFLICT(osm_id) DO UPDATE for one stations row.          *)
UpsertStation(table, e, a) ==
    LET row == [osm_id |-> e.id, area_id |-> a, lat |-> e.coord[1][1],
                lon |-> e.coord[1][2]]
    IN IF HasRow(table, e.id)
       THEN [table EXCEPT ![RowIndex(table, e.id)] = row]
       ELSE Append(table, row)

(* store_stations: elements without a coordinate are skipped.              *)
RECURSIVE store_stations(_, _, _)
store_stations(table, elems, a) ==
    IF elems = <<>> THEN table
    ELSE LET e == Head(elems)
         IN store_stations(IF e.coord = None THEN table ELSE UpsertStation(table, e, a),
                           Tail(elems), a)

(* A variant of Coalesce that takes the new value even when it is NULL.    *)
CoalesceTakesNew(new, old) == new

(* SQL COALESCE(excluded.station_id, <table>.station_id).                  *)
Coalesce(new, old) == IF new # NULL THEN new ELSE old

(* The upsert of store_platforms for one row.                              *)
UpsertPlatform(table, e, a, sid) ==
    IF HasRow(table, e.id)
    THEN LET i == RowIndex(table, e.id)
         IN [table EXCEPT ![i] = [osm_id |-> e.id, area_id |-> a,
                                  lat |-> e.coord[1][1], lon |-> e.coord[1][2],
                                  station_id |-> Coalesce(sid, table[i].station_id)]]
    ELSE Append(table, [osm_id |-> e.id, area_id |-> a, lat |-> e.coord[1][1],
                        lon |-> e.coord[1][2], station_id |-> sid])

RECURSIVE store_platforms(_, _, _, _)
store_platforms(table, elems, a, map) ==
    IF elems = <<>> THEN table
    ELSE LET e == Head(elems)
         IN store_platforms(IF e.coord = None THEN table
                            ELSE UpsertPlatform(table, e, a, MappedStation(map, e.id)),
                            Tail(elems), a, map)

(* The upsert of store_stop_positions for one row; platform_id is not in   *)
(* the statement: NULL on insert, kept on update.                          *)
UpsertStopPosition(table, e, a, sid) ==
    IF HasRow(table, e.id)
    THEN LET i == RowIndex(table, e.id)
         IN [table EXCEPT ![i] = [osm_id |-> e.id, area_id |-> a,
                                  lat |-> e.coord[1][1], lon |-> e.coord[1][2],
                                  station_id |-> Coalesce(sid, table[i].station_id),
                                  platform_id |-> table[i].platform_id]]
    ELSE Append(table, [osm_id |-> e.id, area_id |-> a, lat |-> e.coord[1][1],
                        lon |-> e.coord[1][2], station_id |-> sid,
                        platform_id |-> NULL])

RECURSIVE store_stop_positions(_, _, _, _)
store_stop_positions(table, elems, a, map) ==
    IF elems = <<>> THEN table
    ELSE LET e == Head(elems)
         IN store_stop_positions(IF e.coord = None THEN table
                                 ELSE UpsertStopPosition(table, e, a, MappedStation(map, e.id)),
                                 Tail(elems), a, map)

(* A variant of WithinThreshold that also accepts the threshold itself.    *)
WithinThresholdInclusive(d2, limit) == d2 <= limit

(* The filter of the nearest search: strictly below the threshold.         *)
WithinThreshold(d2, limit) == d2 < limit

(* .filter(..).min_by(..) over the rows: the osm_id of the nearest row     *)
(* within the threshold, the first one among equally near rows, or NULL.   *)
Nearest(rows, lat, lon, limit) ==
    LET cand == SelectSeq(rows, LAMBDA r : WithinThreshold(Dist2(lat, lon, r.lat, r.lon), limit))
    IN IF cand = <<>> THEN NULL
       ELSE LET best == CHOOSE i \in 1..Len(cand) :
                          /\ \A j \in 1..Len(cand) :
                               Dist2(lat, lon, cand[i].lat, cand[i].lon)
                                 <= Dist2(lat, lon, cand[j].lat, cand[j].lon)
                          /\ \A j \in 1..(i - 1) :
                               Dist2(lat, lon, cand[j].lat, cand[j].lon)
                                 > Dist2(lat, lon, cand[i].lat, cand[i].lon)
            IN cand[best].osm_id

(* resolve_relations, sync.rs:499-539: platforms of the area with NULL     *)
(* station_id get the nearest station of the area within the threshold.    *)
LinkPlatforms(pl, st, a) ==
    LET srows == RowsOfArea(st, a)
    IN [i \in 1..Len(pl) |->
          IF pl[i].area_id = a /\ pl[i].station_id = NULL
          THEN LET n == Nearest(srows, pl[i].lat, pl[i].lon, max_station_distance)
               IN IF n # NULL THEN [pl[i] EXCEPT !.station_id = n] ELSE pl[i]
          ELSE pl[i]]

(* resolve_relations, sync.rs:541-582: stop_positions of the area with     *)
(* NULL platform_id get the nearest platform of the area.                  *)
LinkStopPositions(sp, pl, a) ==
    LET prows == RowsOfArea(pl, a)
    IN [i \in 1..Len(sp) |->
          IF sp[i].area_id = a /\ sp[i].platform_id = NULL
          THEN LET n == Nearest(prows, sp[i].lat, sp[i].lon, platform_threshold)
               IN IF n # NULL THEN [sp[i] EXCEPT !.platform_id = n] ELSE sp[i]
          ELSE sp[i]]

(* A variant of PropagateStation that leaves every station_id as it is.    *)
PropagateNothing(sp, pl, a) == sp

(* resolve_relations, sync.rs:584-597: station_id from the linked platform *)
(* where the stop_position's own station_id is NULL.                       *)
PropagateStation(sp, pl, a) ==
    [i \in 1..Len(sp) |->
       IF sp[i].area_id = a /\ sp[i].station_id = NULL /\ sp[i].platform_id # NULL
       THEN [sp[i] EXCEPT !.station_id =
               IF HasRow(pl, sp[i].platform_id)
               THEN RowOf(pl, sp[i].platform_id).station_id ELSE NULL]
       ELSE sp[i]]

(* OsmRoute values as parse_routes_response builds them: sequence is the   *)
(* index of the member in the route relation.                              *)
RouteWay(id, seq) == [way_osm_id |-> id, sequence |-> seq]
RouteStop(id, seq, role) == [osm_id |-> id, sequence |-> seq, role |-> role]
OsmRoute(id, ways, stops) == [osm_id |-> id, ways |-> ways, stops |-> stops]

(* Route 31 with four members, and the same relation after two of its      *)
(* members were removed in OSM.                                            *)
Rt31 == OsmRoute(31, <<RouteWay(101, 0), RouteWay(102, 2)>>,
                 <<RouteStop(21, 1, "stop"), RouteStop(13, 3, "platform")>>)
Rt31Short == OsmRoute(31, <<RouteWay(101, 0)>>, <<RouteStop(21, 1, "stop")>>)

(* The route lists a fetch can return; the line crosses every bounding     *)
(* box.                                                                    *)
RouteLists(a) == {<<>>, <<Rt31>>, <<Rt31Short>>}

(* A variant of DeleteRoute that deletes nothing.                          *)
KeepRouteRows(table, id) == table

(* DELETE FROM <table> WHERE route_id = id.                                *)
DeleteRoute(table, id) == SelectSeq(table, LAMBDA r : r.route_id # id)

(* INSERT ... ON CONFLICT(osm_id) DO UPDATE for one routes row.            *)
UpsertRoute(table, rt, a) ==
    LET row == [osm_id |-> rt.osm_id, area_id |-> a]
    IN IF HasRow(table, rt.osm_id)
       THEN [table EXCEPT ![RowIndex(table, rt.osm_id)] = row]
       ELSE Append(table, row)

(* sync.rs:436-461: the route_ways rows inserted for one route.            *)
WayRows(rt) ==
    [i \in 1..Len(rt.ways) |->
       [route_id |-> rt.osm_id, way_osm_id |-> rt.ways[i].way_osm_id,
        sequence |-> rt.ways[i].sequence]]

(* sync.rs:464-483: the route_stops rows inserted for one route;           *)
(* stop_position_id is the subquery's result, NULL when no stop_positions  *)
(* row has the member's id.                                                *)
StopRows(rt, sp) ==
    [i \in 1..Len(rt.stops) |->
       [route_id |-> rt.osm_id,
        stop_position_id |-> IF HasRow(sp, rt.stops[i].osm_id)
                             THEN rt.stops[i].osm_id ELSE NULL,
        sequence |-> rt.stops[i].sequence,
        role |-> rt.stops[i].role,
        platform_id |-> NULL,
        station_id |-> NULL]]

(* store_routes, sync.rs:385-484: for each fetched route the upsert, the   *)
(* two DELETEs for that route, and the inserts of its ways and stops.      *)
RECURSIVE store_routes(_, _, _, _)
store_routes(tables, rts, a, sp) ==
    IF rts = <<>> THEN tables
    ELSE LET rt == rts[1]
             t1 == [routes |-> UpsertRoute(tables.routes, rt, a),
                    route_ways |-> DeleteRoute(tables.route_ways, rt.osm_id)
                                     \o WayRows(rt),
                    route_stops |-> DeleteRoute(tables.route_stops, rt.osm_id)
                                     \o StopRows(rt, sp)]
         IN store_routes(t1, Tail(rts), a, sp)

(* route_id IN (SELECT osm_id FROM routes WHERE area_id = a).              *)
RouteInArea(rts, id, a) ==
    \E i \in 1..Len(rts) : rts[i].osm_id = id /\ rts[i].area_id = a

(* resolve_relations, sync.rs:599-615: platform_id and station_id of the   *)
(* route_stops of the area's routes, from the referenced stop_position.    *)
ResolveRouteStops(rs, rts, sp, a) ==
    [i \in 1..Len(rs) |->
       IF RouteInArea(rts, rs[i].route_id, a)
       THEN IF rs[i].stop_position_id # NULL /\ HasRow(sp, rs[i].stop_position_id)
            THEN [rs[i] EXCEPT
                    !.platform_id = RowOf(sp, rs[i].stop_position_id).platform_id,
                    !.station_id = RowOf(sp, rs[i].stop_position_id).station_id]
            ELSE [rs[i] EXCEPT !.platform_id = NULL, !.station_id = NULL]
       ELSE rs[i]]

(* A variant of ResolvePlatformStops that resolves no direct reference.    *)
ResolveNoPlatformStops(rs, rts, pl, a) == rs

(* resolve_relations, sync.rs:617-633: route_stops that reference a        *)
(* platform directly.                                                      *)
ResolvePlatformStops(rs, rts, pl, a) ==
    [i \in 1..Len(rs) |->
       IF /\ RouteInArea(rts, rs[i].route_id, a)
          /\ rs[i].platform_id = NULL
          /\ rs[i].stop_position_id # NULL
          /\ HasRow(pl, rs[i].stop_position_id)
       THEN [rs[i] EXCEPT
               !.platform_id = rs[i].stop_position_id,
               !.station_id = RowOf(pl, rs[i].stop_position_id).station_id]
       ELSE rs[i]]

(* No sync_area has committed yet.                                         *)
NoSync == [area |-> 0, routes |-> <<>>]

NoFetch == [runs |-> "none", area |-> 0, stations |-> <<>>, platforms |-> <<>>,
            stop_positions |-> <<>>, routes |-> <<>>, fresh |-> {}]

RoutesInit ==
    /\ routes = <<>>
    /\ route_ways = <<>>
    /\ route_stops = <<>>
    /\ last_sync = NoSync
    /\ last_fetch = NoFetch

TopoInit ==
    /\ stations = <<>>
    /\ platforms = <<>>
    /\ stop_positions = <<>>
    /\ RoutesInit

(* One successful sync_area for area a whose fetch returned these lists:   *)
(* sync.rs:135 and 158-165, committed as a whole.                          *)
SyncArea(a, sts, pls, sps, rts) ==
    LET map == extract_station_platform_mappings(sts)
        st1 == store_stations(stations, sts, a)
        pl1 == store_platforms(platforms, pls, a, map)
        sp1 == store_stop_positions(stop_positions, sps, a, map)
        rt1 == store_routes([routes |-> routes, route_ways |-> route_ways,
                             route_stops |-> route_stops], rts, a, sp1)
        pl2 == LinkPlatforms(pl1, st1, a)
        sp2 == LinkStopPositions(sp1, pl2, a)
        sp3 == PropagateStation(sp2, pl2, a)
        rs1 == ResolveRouteStops(rt1.route_stops, rt1.routes, sp3, a)
        rs2 == ResolvePlatformStops(rs1, rt1.routes, pl2, a)
    IN /\ stations' = st1
       /\ platforms' = pl2
       /\ stop_positions' = sp3
       /\ routes' = rt1.routes
       /\ route_ways' = rt1.route_ways
       /\ route_stops' = rs2
       /\ last_sync' = [area |-> a, routes |-> rts]
       /\ UNCHANGED notTopo

(* A sync of an area whose bounding box holds no route relation.           *)
TopoSyncArea ==
    /\ \E a \in Areas :
       \E sts \in StationLists(a), pls \in PlatformLists(a), sps \in StopPositionLists(a) :
          SyncArea(a, sts, pls, sps, <<>>)
    /\ UNCHANGED last_fetch

TopoNext == TopoSyncArea

(* The whole answer of a fetch for the area, or nothing.                   *)
WholeOrEmpty(seq, a) == {<<>>, SelectSeq(seq, LAMBDA e : FoundIn(e, a))}

(* A sync of an area crossed by route 31.                                  *)
RoutesSyncArea ==
    \E a \in Areas :
    \E sts \in WholeOrEmpty(<<St1, St2, St3>>, a),
       pls \in WholeOrEmpty(<<Pl12, Pl13>>, a),
       sps \in WholeOrEmpty(<<Sp21>>, a),
       rts \in RouteLists(a) :
       /\ SyncArea(a, sts, pls, sps, rts)
       /\ UNCHANGED last_fetch

RoutesNext == RoutesSyncArea

-----------------------------------------------------------------------------
(* Two area syncs in a row, and a sync repeated on the same OSM data.      *)

(* Route 32 stops at stop position 21, at platform 13, at the node 14 that *)
(* is both, and at stop position 22.                                       *)
Rt32 == OsmRoute(32, <<RouteWay(101, 0)>>,
                 <<RouteStop(21, 1, "stop"), RouteStop(13, 2, "platform"),
                   RouteStop(14, 3, "stop"), RouteStop(22, 4, "")>>)

InArea(seq, a) == SelectSeq(seq, LAMBDA e : FoundIn(e, a))

(* The lists a fetch for the area returns.                                 *)
ResolveStationLists(a) == {<<>>, InArea(<<St3>>, a), InArea(<<St1, St2, St3>>, a)}
ResolvePlatformLists(a) ==
    SubSeqs(InArea(<<Pl13, Pd14>>, a)) \cup {InArea(<<Pl12, Pl13, Pd14>>, a)}
ResolveStopPositionLists(a) ==
    {<<>>, InArea(<<Sp22>>, a), InArea(<<Pd14>>, a), InArea(<<Sp21, Sp22, Pd14>>, a)}
ResolveRouteLists(a) == {<<>>, <<Rt32>>}

(* The fetched stop positions the tables hold no link for yet: no          *)
(* stop_positions row, or one with NULL platform_id and NULL station_id.   *)
Fresh(sps) ==
    { sps[n].id : n \in { k \in DOMAIN sps :
         HasRow(stop_positions, sps[k].id) =>
           /\ RowOf(stop_positions, sps[k].id).platform_id = NULL
           /\ RowOf(stop_positions, sps[k].id).station_id = NULL } }

(* sync_area for an area, the first or the second of the behaviour.        *)
ResolveSyncArea ==
    /\ last_fetch.runs \in {"none", "one"}
    /\ \E a \in Areas :
       \E sts \in ResolveStationLists(a), pls \in ResolvePlatformLists(a),
          sps \in ResolveStopPositionLists(a), rts \in ResolveRouteLists(a) :
          /\ SyncArea(a, sts, pls, sps, rts)
          /\ last_fetch' = [runs |-> IF last_fetch.runs = "none" THEN "one" ELSE "two",
                         area |-> a, stations |-> sts, platforms |-> pls,
                         stop_positions |-> sps, routes |-> rts,
                         fresh |-> Fresh(sps)]

(* sync_area for the same area again, Overpass answering as before.        *)
ResolveSyncAgain ==
    /\ last_fetch.runs \in {"one", "two"}
    /\ SyncArea(last_fetch.area, last_fetch.stations, last_fetch.platforms,
                last_fetch.stop_positions, last_fetch.routes)
    /\ last_fetch' = [last_fetch EXCEPT !.runs = "again",
                                  !.fresh = Fresh(last_fetch.stop_positions)]

ResolveNext ==
    \/ ResolveSyncArea
    \/ ResolveSyncAgain

-----------------------------------------------------------------------------
(* Relation-resolution step 1 on its own: the nearest-station search as a  *)
(* function of the rows the two SELECTs return.                            *)

(* The most stations rows drawn.                                           *)
MaxStationRows == 3

(* Coordinates drawn for stations and for the platform; <<50, 0>> and      *)
(* <<30, 40>> lie exactly 0.005 degree from <<0, 0>>.                       *)
StationCoords == {<<0, 0>>, <<20, 0>>, <<0, -20>>, <<30, 40>>, <<50, 0>>}
PlatformCoords == {<<0, 0>>, <<10, 0>>}

(* stations tables of n rows with osm_ids 1..n, in areas 1 and 2.          *)
StationTables(n) ==
    { [i \in 1..n |-> [osm_id |-> i, area_id |-> f[i][1], lat |-> f[i][2][1],
                       lon |-> f[i][2][2]]] :
      f \in [1..n -> {1, 2} \X StationCoords] }

LinkInit ==
    /\ stations \in UNION { StationTables(n) : n \in 0..MaxStationRows }
    /\ \E c \in PlatformCoords :
         platforms = <<[osm_id |-> 13, area_id |-> 1, lat |-> c[1], lon |-> c[2],
                        station_id |-> NULL]>>
    /\ stop_positions = <<>>
    /\ RoutesInit
    /\ link_done = FALSE

(* sync.rs:499-539 for area 1.                                             *)
LinkApply ==
    /\ ~link_done
    /\ platforms' = LinkPlatforms(platforms, stations, 1)
    /\ link_done' = TRUE
    /\ UNCHANGED stations
    /\ UNCHANGED notLink

LinkNext == LinkApply

-----------------------------------------------------------------------------
(* ---- the vehicle position tracker ----                                  *)
(* One action per call of VehiclePositionTracker::update. Times are in     *)
(* seconds; a chrono::Duration is a difference of two of them; tnow is the *)
(* `now` of the tracker's functions.                                       *)

(* The most calls of update in a behaviour.                                *)
MaxTicks == 3

(* chrono::Duration::num_minutes: whole minutes, truncated toward zero.    *)
num_minutes(d) == IF d >= 0 THEN d \div 60 ELSE -((-d) \div 60)

VehicleIds == {"V1", "V2"}

(* Coordinates are [lon, lat] pairs in metres on a local grid. The points  *)
(* drawn lie on one parallel, where the great-circle distance is the       *)
(* difference of the longitudes; [0, 0], the lookup's fallback, is farther *)
(* from every one of them than any threshold.                              *)
Abs(x) == IF x >= 0 THEN x ELSE -x
haversine_distance(coord1, coord2) ==
    Abs(coord2[1] - coord1[1]) + Abs(coord2[2] - coord1[2])

(* The stations argument of update: the stops with a coordinate. S to T is *)
(* 400 m, S to U is 800 m; the IFOPT X is not in the map.                  *)
Stations == [S |-> <<1000, 1000>>, T |-> <<1400, 1000>>, U |-> <<1800, 1000>>]

(* lookup_station_coordinates: [0, 0] when the stop is not found.          *)
lookup_station_coordinates(stop_id) ==
    IF stop_id \in DOMAIN Stations THEN Stations[stop_id] ELSE <<0, 0>>

(* find_closest_point_index: the first index (from 1) of the nearest point *)
(* strictly within max_distance, or None.                                  *)
find_closest_point_index(points, target, max_distance) ==
    LET d(i) == haversine_distance(points[i], target)
        near == {i \in 1..Len(points) : d(i) < max_distance}
    IN IF near = {} THEN None
       ELSE Some(CHOOSE i \in near :
                   \A j \in near : d(i) < d(j) \/ (d(i) = d(j) /\ i <= j))

(* all_points.extend_from_slice(segment) over the segments of a line.      *)
RECURSIVE Concatenate(_)
Concatenate(segments) ==
    IF segments = <<>> THEN <<>>
    ELSE Head(segments) \o Concatenate(Tail(segments))

Reverse(seq) == [i \in 1..Len(seq) |-> seq[Len(seq) + 1 - i]]

(* A variant of Slice that returns the points in polyline order whatever   *)
(* the direction of travel.                                                *)
SliceUnreversed(all_points, from_idx, to_idx, from_coord, to_coord) ==
    IF from_idx < to_idx THEN SubSeq(all_points, from_idx, to_idx)
    ELSE IF from_idx > to_idx THEN SubSeq(all_points, to_idx, from_idx)
    ELSE <<from_coord, to_coord>>

(* vehicle_positions.rs:426-436: the slice between the matched indices.    *)
Slice(all_points, from_idx, to_idx, from_coord, to_coord) ==
    IF from_idx < to_idx THEN SubSeq(all_points, from_idx, to_idx)
    ELSE IF from_idx > to_idx THEN Reverse(SubSeq(all_points, to_idx, from_idx))
    ELSE <<from_coord, to_coord>>

(* extract_geometry_segment for a tracker whose line_geometries map is     *)
(* geometries (line_number -> Vec of segments).                            *)
extract_geometry_segment(geometries, from_station_id, to_station_id, line_number) ==
    IF line_number \notin DOMAIN geometries THEN <<>>
    ELSE LET from_coord == lookup_station_coordinates(from_station_id)
             to_coord == lookup_station_coordinates(to_station_id)
             all_points == Concatenate(geometries[line_number])
             from_index == find_closest_point_index(all_points, from_coord, 500)
             to_index == find_closest_point_index(all_points, to_coord, 500)
         IN IF from_coord = <<0, 0>> \/ to_coord = <<0, 0>> THEN <<>>
            ELSE IF from_index = None \/ to_index = None THEN <<>>
            ELSE Slice(all_points, from_index[1], to_index[1], from_coord, to_coord)

(* The line_geometries the tracker was constructed with: line 1 runs       *)
(* through S, T and U in two segments, line 3 lies 8 km away, line 2 has   *)
(* no geometry.                                                            *)
LineGeometries ==
    [l \in {"1", "3"} |->
       IF l = "1"
       THEN << << <<1000, 1000>>, <<1200, 1000>> >>,
               << <<1400, 1000>>, <<1800, 1000>> >> >>
       ELSE << << <<9000, 1000>>, <<9400, 1000>> >> >>]

(* (distance / 1000.0) / 20.0 * 60.0 cast with `as i64`.                   *)
travel_time_minutes(distance) == (distance * 3) \div 1000

(* The fields of VehicleInfo the tracker reads. last_departure_planned is  *)
(* None when the string does not parse as RFC 3339; next_stop is None      *)
(* unless next_stop_id and next_stop_name are both present.                *)
VehicleInfo(line, planned, current, next) ==
    [line_number |-> line, last_departure_planned |-> planned,
     current_stop_id |-> current, next_stop_id |-> next]

ConfirmedStop(stop, arrival, departure) ==
    [stop_id |-> stop, arrival_time |-> arrival, departure_time |-> departure]

(* An entry of the trams map, and a vehicle the map has no entry for.      *)
Untracked == <<>>
Tracked(t) == <<t>>

(* An entry of the vehicles argument, and a vehicle it does not contain.   *)
NotInFeed == <<>>
InFeed(v) == <<v>>

(* TramState::from_vehicle_info.                                           *)
from_vehicle_info(vehicle, tnow) ==
    [line_number |-> vehicle.line_number,
     status |-> "EnRoute",
     last_confirmed_stop |-> None,
     next_confirmed_stop |-> None,
     last_seen_in_feed |-> tnow]

(* A variant of IsWaiting that also counts a departure exactly five        *)
(* minutes ahead as waiting.                                               *)
IsWaitingInclusive(minutes_since_departure) == minutes_since_departure <= -5

(* vehicle_positions.rs:279: the test that selects the AtStation branch.   *)
IsWaiting(minutes_since_departure) == minutes_since_departure < -5

(* update_tram_from_vehicle.                                               *)
update_tram_from_vehicle(tram, vehicle, tnow) ==
    LET seen == [tram EXCEPT !.last_seen_in_feed = tnow]
    IN IF vehicle.last_departure_planned = None THEN seen
       ELSE
         LET departure_time == vehicle.last_departure_planned[1]
             minutes_since_departure == num_minutes(tnow - departure_time)
             from_coordinates == lookup_station_coordinates(vehicle.current_stop_id)
             next ==
               IF vehicle.next_stop_id = None THEN tram.next_confirmed_stop
               ELSE LET to == vehicle.next_stop_id[1]
                        next_coordinates == lookup_station_coordinates(to)
                        distance == haversine_distance(from_coordinates,
                                                       next_coordinates)
                        estimated_arrival ==
                          departure_time + 60 * travel_time_minutes(distance)
                    IN Some(ConfirmedStop(to, estimated_arrival, None))
         IN [seen EXCEPT
               !.status = IF IsWaiting(minutes_since_departure)
                          THEN "AtStation" ELSE "EnRoute",
               !.last_confirmed_stop =
                  Some(ConfirmedStop(vehicle.current_stop_id, departure_time,
                                     Some(departure_time))),
               !.next_confirmed_stop = next]

(* update, step 1 (vehicle_positions.rs:220-234).                          *)
UpdateOrInsert(map, vehicles, tnow) ==
    [v \in VehicleIds |->
       IF vehicles[v] = NotInFeed THEN map[v]
       ELSE IF map[v] # Untracked
            THEN Tracked(update_tram_from_vehicle(map[v][1], vehicles[v][1], tnow))
            ELSE Tracked(from_vehicle_info(vehicles[v][1], tnow))]

(* A variant of MissingOutcome that keeps a vehicle unseen for more than   *)
(* an hour and marks it InDepot.                                           *)
MissingOutcomeKeepsDepot(time_since_last_seen) ==
    IF time_since_last_seen \in 0..60 THEN "Stale" ELSE "InDepot"

(* A variant of MissingOutcome that removes a vehicle from the sixtieth    *)
(* minute on.                                                              *)
MissingOutcomeRemovesAtSixty(time_since_last_seen) ==
    IF time_since_last_seen \in 0..59 THEN "Stale" ELSE "remove"

(* A variant of MissingOutcome that keeps a vehicle through minute 61.     *)
MissingOutcomeRemovesLate(time_since_last_seen) ==
    IF time_since_last_seen \in 0..61 THEN "Stale" ELSE "remove"

(* handle_missing_trams, the match at vehicle_positions.rs:475-500: the    *)
(* status the vehicle gets, or "remove".                                   *)
MissingOutcome(time_since_last_seen) ==
    IF time_since_last_seen \in 0..20 THEN "Stale"
    ELSE IF time_since_last_seen \in 21..60 THEN "Stale"
    ELSE "remove"

(* handle_missing_trams.                                                   *)
handle_missing_trams(map, current_vehicles, tnow) ==
    [v \in VehicleIds |->
       IF map[v] = Untracked \/ current_vehicles[v] # NotInFeed THEN map[v]
       ELSE LET outcome == MissingOutcome(num_minutes(tnow - map[v][1].last_seen_in_feed))
            IN IF outcome = "remove" THEN Untracked
               ELSE Tracked([map[v][1] EXCEPT !.status = outcome])]

(* A variant of Clamp that leaves the quotient as it is.                   *)
ClampOff(elapsed, total) == <<elapsed, total>>

(* (elapsed / total).clamp(0.0, 1.0) for total > 0, as the fraction        *)
(* <<numerator, denominator>>.                                             *)
Clamp(elapsed, total) ==
    IF elapsed < 0 THEN <<0, 1>>
    ELSE IF elapsed > total THEN <<1, 1>>
    ELSE <<elapsed, total>>

(* vehicle_positions.rs:637-643: the time-based progress.                  *)
Progress(elapsed, total) == IF total > 0 THEN Clamp(elapsed, total) ELSE <<0, 1>>

(* The fields of VehiclePosition that depend on the tracker state.         *)
VehiclePosition(progress, from, to, geometry_segment) ==
    [progress |-> progress, from_station_id |-> from, to_station_id |-> to,
     geometry_segment |-> geometry_segment]

(* A variant of HasPositionArm in which a Stale tram is positioned like an *)
(* EnRoute one.                                                            *)
HasPositionArmForStale(status) == status \in {"AtStation", "EnRoute", "Stale"}

(* The match of calculate_tram_position: the AtStation and EnRoute arms    *)
(* build a position, the Stale and InDepot arms return None.               *)
HasPositionArm(status) == status \in {"AtStation", "EnRoute"}

(* A variant of EmitWithSegment that emits nothing when the segment is     *)
(* empty.                                                                  *)
EmitUnlessEmpty(progress, from, to, geometry_segment) ==
    IF geometry_segment = <<>> THEN None
    ELSE Some(VehiclePosition(progress, from, to, geometry_segment))

(* vehicle_positions.rs:615-628 and 653-666: the position is built with    *)
(* whatever extract_geometry_segment returned.                             *)
EmitWithSegment(progress, from, to, geometry_segment) ==
    Some(VehiclePosition(progress, from, to, geometry_segment))

(* calculate_tram_position: None, or Some(position).                       *)
calculate_tram_position(tram, tnow) ==
    IF ~HasPositionArm(tram.status) THEN None
    ELSE IF tram.last_confirmed_stop = None \/ tram.next_confirmed_stop = None
    THEN None
    ELSE LET from == tram.last_confirmed_stop[1]
             to == tram.next_confirmed_stop[1]
             geometry_segment ==
               extract_geometry_segment(LineGeometries, from.stop_id, to.stop_id,
                                        tram.line_number)
         IN IF tram.status = "AtStation"
            THEN EmitWithSegment(<<0, 1>>, from.stop_id, to.stop_id, geometry_segment)
            ELSE IF from.departure_time = None THEN None
            ELSE LET elapsed == tnow - from.departure_time[1]
                     total == to.arrival_time - from.departure_time[1]
                 IN EmitWithSegment(Progress(elapsed, total), from.stop_id,
                                    to.stop_id, geometry_segment)

(* calculate_all_positions: an entry for every tram that has a position.   *)
calculate_all_positions(map, tnow) ==
    [v \in VehicleIds |->
       IF map[v] = Untracked \/ map[v][1].status = "InDepot" THEN None
       ELSE calculate_tram_position(map[v][1], tnow)]

(* get_stats: (at_station, en_route, stale, in_depot).                     *)
get_stats(map) ==
    LET count(st) == Cardinality({v \in VehicleIds :
                                    map[v] # Untracked /\ map[v][1].status = st})
    IN <<count("AtStation"), count("EnRoute"), count("Stale"), count("InDepot")>>

(* Seconds between two calls of update.                                    *)
Advances == {30, 1200, 3630}

(* Planned departures of a feed entry, relative to the tick's Utc::now().  *)
PlannedOffsets == {-300, -30, 300, 330, 360}

(* The feed entries of a vehicle at a tick, both vehicles on line 1: V1    *)
(* waits at S or has left it toward T, or left it 30 s ago toward U or     *)
(* toward an unreported stop; V2 has just left S toward T.                 *)
FeedEntries(v, tnow) ==
    IF v = "V1"
    THEN {NotInFeed,
          InFeed(VehicleInfo("1", None, "S", Some("T"))),
          InFeed(VehicleInfo("1", Some(tnow - 30), "S", Some("U"))),
          InFeed(VehicleInfo("1", Some(tnow - 30), "S", None))}
         \cup { InFeed(VehicleInfo("1", Some(tnow + o), "S", Some("T"))) :
                o \in PlannedOffsets }
    ELSE {NotInFeed, InFeed(VehicleInfo("1", Some(tnow - 30), "S", Some("T")))}

(* Feed entries that vary the line and the stops: V1 runs on a line with   *)
(* geometry (1), without (2) or with geometry elsewhere (3), between known *)
(* stops or from or to the unknown IFOPT X, having left 30 s ago, or it    *)
(* waits on line 2 or 3 to leave in 6 minutes; V2 runs on line 1 from T    *)
(* back to S.                                                              *)
GeometryFeedEntries(v, tnow) ==
    IF v = "V1"
    THEN {NotInFeed,
          InFeed(VehicleInfo("2", Some(tnow + 360), "S", Some("T"))),
          InFeed(VehicleInfo("3", Some(tnow + 360), "S", Some("T")))}
         \cup { InFeed(VehicleInfo(l, Some(tnow - 30), st[1], Some(st[2]))) :
                l \in {"1", "2", "3"},
                st \in {<<"S", "T">>, <<"X", "T">>, <<"S", "X">>} }
    ELSE {NotInFeed, InFeed(VehicleInfo("1", Some(tnow - 30), "T", Some("S")))}

(* The vehicles maps made of these entries.                                *)
SnapshotsOf(Entries(_, _), tnow) ==
    { f \in [VehicleIds -> UNION { Entries(v, tnow) : v \in VehicleIds }] :
        \A v \in VehicleIds : f[v] \in Entries(v, tnow) }

Snapshots(tnow) == SnapshotsOf(FeedEntries, tnow)

TrackInit ==
    /\ trams = [v \in VehicleIds |-> Untracked]
    /\ positions = [v \in VehicleIds |-> None]
    /\ last_update = 0
    /\ ticks = 0
    /\ snapshot = [v \in VehicleIds |-> NotInFeed]
    /\ seen_before = [v \in VehicleIds |-> None]

(* VehiclePositionTracker::update, vehicle_positions.rs:206-253, called    *)
(* with one of these vehicles maps. apply_constraints (step 3) only logs.  *)
Update(Entries(_, _), advances) ==
    /\ ticks < MaxTicks
    /\ \E adv \in advances :
       LET tnow == last_update + adv
       IN \E vehicles \in SnapshotsOf(Entries, tnow) :
          LET updated == UpdateOrInsert(trams, vehicles, tnow)
              kept == handle_missing_trams(updated, vehicles, tnow)
          IN /\ trams' = kept
             /\ positions' = calculate_all_positions(kept, tnow)
             /\ last_update' = tnow
             /\ ticks' = ticks + 1
             /\ snapshot' = vehicles
             /\ seen_before' = [v \in VehicleIds |->
                                  IF trams[v] = Untracked THEN None
                                  ELSE Some(trams[v][1].last_seen_in_feed)]
             /\ UNCHANGED notTrack

TrackerTick == Update(FeedEntries, Advances)

TrackNext == TrackerTick

(* The calls come 30 s apart.                                              *)
GeometryTick == Update(GeometryFeedEntries, {30})

GeometryNext == GeometryTick

-----------------------------------------------------------------------------
(* extract_geometry_segment on its own, as a function of the line's        *)
(* geometry and the two stops.                                             *)

(* The most points of a drawn polyline.                                    *)
MaxPoints == 3

(* Polyline points: at S, exactly 500 m from S (100 m from T, 300 m from   *)
(* U), at U, and 8 km away.                                                *)
PolylinePoints == {<<1000, 1000>>, <<1500, 1000>>, <<1800, 1000>>, <<9000, 1000>>}

(* The polylines of up to n points, each cut into two segments.            *)
SegmentLists(n) ==
    UNION { { <<SubSeq(pts, 1, cut), SubSeq(pts, cut + 1, Len(pts))>> :
              cut \in 0..Len(pts) } :
            pts \in UNION { [1..k -> PolylinePoints] : k \in 0..n } }

(* No call of the function is being looked at.                             *)
NoCall == <<>>

ExtractIdle ==
    /\ ex_input = NoCall
    /\ ex_result = None
    /\ mp_input = NoCall
    /\ mp_result = None
    /\ pr_input = NoCall
    /\ pr_result = None

(* The arguments of a call: the segments of the line (None: the line is    *)
(* not in line_geometries) and the two stop ids.                           *)
ExtractInit ==
    /\ \E segs \in {None} \cup { Some(l) : l \in SegmentLists(MaxPoints) },
          from \in {"S", "T", "U", "X"}, to \in {"S", "T", "U", "X"} :
         ex_input = [segments |-> segs, from_station_id |-> from,
                     to_station_id |-> to]
    /\ ex_result = None
    /\ mp_input = NoCall
    /\ mp_result = None
    /\ pr_input = NoCall
    /\ pr_result = None

(* The line_geometries map of the drawn call.                              *)
DrawnGeometries ==
    IF ex_input.segments = None THEN <<>>
    ELSE [l \in {"1"} |-> ex_input.segments[1]]

(* The call extract_geometry_segment(from, to, "1", stations).             *)
ExtractCall ==
    /\ ex_input # NoCall
    /\ ex_result = None
    /\ ex_result' = Some(extract_geometry_segment(DrawnGeometries,
                            ex_input.from_station_id, ex_input.to_station_id, "1"))
    /\ UNCHANGED ex_input
    /\ UNCHANGED notExtract

ExtractNext == ExtractCall

-----------------------------------------------------------------------------
(* extract_station_platform_mappings on its own, as a function of the      *)
(* station elements.                                                       *)

(* The most members of the first drawn element.                            *)
MaxMembers == 2

MemberRoles == {Some("platform"), Some("stop"), Some("entrance"), None}
Members == { Member(ref, role) : ref \in {12, 13}, role \in MemberRoles }
MemberLists(n) == UNION { [1..k -> Members] : k \in 0..n }
ElementTypes == {"relation", "node", "way"}

(* One element with id 1 and up to MaxMembers members, alone or followed   *)
(* by an element with id 2 and at most one member; each of any type.       *)
StationElementLists ==
    LET first == { Element(1, t, Some(<<0, 0>>), ms) :
                   t \in ElementTypes, ms \in MemberLists(MaxMembers) }
        second == { Element(2, t, Some(<<0, 0>>), ms) :
                    t \in ElementTypes, ms \in MemberLists(1) }
    IN { <<e>> : e \in first } \cup { <<e, f>> : e \in first, f \in second }

MappingInit ==
    /\ mp_input \in StationElementLists
    /\ mp_result = None
    /\ ex_input = NoCall
    /\ ex_result = None
    /\ pr_input = NoCall
    /\ pr_result = None

(* The call extract_station_platform_mappings(&stations).                  *)
MappingCall ==
    /\ mp_input # NoCall
    /\ mp_result = None
    /\ mp_result' = Some(extract_station_platform_mappings(mp_input))
    /\ UNCHANGED mp_input
    /\ UNCHANGED notMapping

MappingNext == MappingCall

-----------------------------------------------------------------------------
(* parse_routes_response on its own, as a function of the response's       *)
(* elements.                                                               *)

(* The most members of the drawn route relation.                           *)
MaxRouteMembers == 3

(* An element of the response, reduced to what the function reads: coord   *)
(* is Some(<<lat, lon>>) when lat and lon are both present, nodes is the   *)
(* way's node list, route_tag is tags["type"].                             *)
ResponseElement(type, id, coord, nodes, type_tag, members) ==
    [element_type |-> type, id |-> id, coord |-> coord, nodes |-> nodes,
     type_tag |-> type_tag, members |-> members]

RouteMember(type, ref, role) == [member_type |-> type, member_ref |-> ref, role |-> role]

RouteWayWithGeometry(id, seq, coords) ==
    [way_osm_id |-> id, sequence |-> seq, geometry |-> coords]

(* HashMap::insert.                                                        *)
Insert(map, k, v) ==
    [x \in (DOMAIN map) \cup {k} |-> IF x = k THEN v ELSE map[x]]

EmptyMap == [x \in {} |-> NULL]

(* osm.rs:341-356, the first pass: the coordinates of the nodes that have  *)
(* both, and the node lists of the ways that have one.                     *)
RECURSIVE CollectNodes(_)
CollectNodes(elements) ==
    IF elements = <<>> THEN EmptyMap
    ELSE LET rest == CollectNodes(SubSeq(elements, 1, Len(elements) - 1))
             e == elements[Len(elements)]
         IN IF e.element_type = "node" /\ e.coord # None
            THEN Insert(rest, e.id, e.coord[1]) ELSE rest

RECURSIVE CollectWays(_)
CollectWays(elements) ==
    IF elements = <<>> THEN EmptyMap
    ELSE LET rest == CollectWays(SubSeq(elements, 1, Len(elements) - 1))
             e == elements[Len(elements)]
         IN IF e.element_type = "way" /\ e.nodes # None
            THEN Insert(rest, e.id, e.nodes[1]) ELSE rest

(* osm.rs:388-394, filter_map over the way's node ids: [lon, lat] of the   *)
(* nodes that resolve, in order.                                           *)
RECURSIVE ResolveGeometry(_, _)
ResolveGeometry(node_ids, nodes) ==
    IF node_ids = <<>> THEN <<>>
    ELSE (IF Head(node_ids) \in DOMAIN nodes
          THEN << <<nodes[Head(node_ids)][2], nodes[Head(node_ids)][1]>> >>
          ELSE <<>>)
         \o ResolveGeometry(Tail(node_ids), nodes)

(* A variant of MemberSequence that counts ways and stops separately.      *)
SequencePerKind(seq, recorded) == recorded

(* osm.rs:375, 398 and 409: the sequence of a recorded way or stop is the  *)
(* index of its member in members.iter().enumerate().                      *)
MemberSequence(seq, recorded) == seq

(* osm.rs:374-418, the loop over the members of one route relation;        *)
(* r_ways and r_stops are the vectors route_ways and route_stops.          *)
RECURSIVE ParseMembers(_, _, _, _, _, _)
ParseMembers(members, k, nodes, ways, r_ways, r_stops) ==
    IF k > Len(members) THEN [ways |-> r_ways, stops |-> r_stops]
    ELSE
      LET member == members[k]
          seq == k - 1
      IN IF member.member_type = "way"
         THEN IF unwrap_or(member.role, "") = "platform"
              THEN ParseMembers(members, k + 1, nodes, ways, r_ways, r_stops)
              ELSE IF member.member_ref \notin DOMAIN ways
              THEN ParseMembers(members, k + 1, nodes, ways, r_ways, r_stops)
              ELSE LET coords == ResolveGeometry(ways[member.member_ref], nodes)
                   IN IF coords # <<>>
                      THEN ParseMembers(members, k + 1, nodes, ways,
                             Append(r_ways,
                                    RouteWayWithGeometry(member.member_ref,
                                       MemberSequence(seq, Len(r_ways)), coords)),
                             r_stops)
                      ELSE ParseMembers(members, k + 1, nodes, ways, r_ways,
                                        r_stops)
         ELSE IF member.member_type = "node"
         THEN LET role == unwrap_or(member.role, "")
              IN IF role = "stop" \/ role = "platform" \/ role = ""
                 THEN ParseMembers(members, k + 1, nodes, ways, r_ways,
                        Append(r_stops,
                               RouteStop(member.member_ref,
                                         MemberSequence(seq, Len(r_stops)), role)))
                 ELSE ParseMembers(members, k + 1, nodes, ways, r_ways,
                                   r_stops)
         ELSE ParseMembers(members, k + 1, nodes, ways, r_ways, r_stops)

(* osm.rs:358-431, the second pass: one OsmRoute per relation whose type   *)
(* tag is route.                                                           *)
RECURSIVE BuildRoutes(_, _, _)
BuildRoutes(elements, nodes, ways) ==
    IF elements = <<>> THEN <<>>
    ELSE LET elem == Head(elements)
             rest == BuildRoutes(Tail(elements), nodes, ways)
         IN IF elem.element_type # "relation" THEN rest
            ELSE IF elem.type_tag # Some("route") THEN rest
            ELSE LET parsed == ParseMembers(elem.members, 1, nodes, ways, <<>>, <<>>)
                 IN <<OsmRoute(elem.id, parsed.ways, parsed.stops)>> \o rest

parse_routes_response(elements) ==
    BuildRoutes(elements, CollectNodes(elements), CollectWays(elements))

(* The members drawn: way 101 with no role, role forward or role platform, *)
(* way 102 which the response does not contain, node 21 with role stop,    *)
(* platform, entrance, empty or none, and a relation member.               *)
RouteMembers ==
    { RouteMember("way", 101, role) : role \in {None, Some("forward"), Some("platform")} }
    \cup { RouteMember("way", 102, None) }
    \cup { RouteMember("node", 21, role) :
             role \in {Some("stop"), Some("platform"), Some("entrance"), Some(""), None} }
    \cup { RouteMember("relation", 5, None) }

(* The responses drawn: nodes 1 and 2 with or without coordinates, way 101 *)
(* over none, one or both of them, and relation 31, tagged as route or as  *)
(* something else, with up to MaxRouteMembers members.                     *)
Responses31 ==
    { << ResponseElement("node", 1, c1, None, None, <<>>),
         ResponseElement("relation", 31, None, None, tag, ms),
         ResponseElement("node", 2, c2, None, None, <<>>),
         ResponseElement("way", 101, None, Some(ns), None, <<>>) >> :
      c1 \in {None, Some(<<10, 11>>)}, c2 \in {None, Some(<<20, 21>>)},
      tag \in {Some("route"), Some("route_master")},
      ns \in {<<>>, <<1, 2>>, <<2, 1>>},
      ms \in UNION { [1..k -> RouteMembers] : k \in 0..MaxRouteMembers } }

ParseInit ==
    /\ pr_input \in Responses31
    /\ pr_result = None
    /\ ex_input = NoCall
    /\ ex_result = None
    /\ mp_input = NoCall
    /\ mp_result = None

(* The call parse_routes_response(response).                               *)
ParseCall ==
    /\ pr_input # NoCall
    /\ pr_result = None
    /\ pr_result' = Some(parse_routes_response(pr_input))
    /\ UNCHANGED pr_input
    /\ UNCHANGED notParse

ParseNext == ParseCall

-----------------------------------------------------------------------------
Init == DepInit /\ OsmInit /\ StartInit /\ TopoInit /\ link_done = FALSE /\ TrackInit /\ ExtractIdle

SpecDep == Init /\ [][DepNext]_vars

SpecDepLock == Init /\ [][DepLockNext]_vars

SpecOsm == Init /\ [][OsmNext]_vars

(* The steps of a sync_all_areas run in progress. The runtime keeps        *)
(* polling the task, every request ends within the client's timeouts       *)
(* (osm.rs:22-25) and every sleep is finite, so a run in progress always   *)
(* takes its next step.                                                    *)
OsmRunStep ==
    \/ OsmSyncArea
    \/ OsmRequest
    \/ OsmBackoff
    \/ OsmAfterCall
    \/ OsmBegin
    \/ OsmTxWrite
    \/ OsmCommit
    \/ OsmTxFail
    \/ OsmAfterAttempt
    \/ OsmAreaWait

SpecOsmFair == Init /\ [][OsmNext]_vars /\ WF_vars(OsmRunStep)

SpecStart == Init /\ [][StartNext]_vars

SpecTopo == Init /\ [][TopoNext]_vars

SpecRoutes == Init /\ [][RoutesNext]_vars

SpecResolve == Init /\ [][ResolveNext]_vars

(* The drawn tables of LinkInit, everything else as constructed.           *)
InitLink == DepInit /\ OsmInit /\ StartInit /\ LinkInit /\ TrackInit /\ ExtractIdle

SpecLink == InitLink /\ [][LinkNext]_vars

SpecTrack == Init /\ [][TrackNext]_vars

SpecGeometry == Init /\ [][GeometryNext]_vars

(* The drawn call of ExtractInit, everything else as constructed.          *)
InitExtract ==
    DepInit /\ OsmInit /\ StartInit /\ TopoInit /\ link_done = FALSE /\ TrackInit
    /\ ExtractInit

SpecExtract == InitExtract /\ [][ExtractNext]_vars

(* The drawn call of MappingInit, everything else as constructed.          *)
InitMapping ==
    DepInit /\ OsmInit /\ StartInit /\ TopoInit /\ link_done = FALSE /\ TrackInit
    /\ MappingInit

SpecMapping == InitMapping /\ [][MappingNext]_vars

(* The drawn call of ParseInit, everything else as constructed.            *)
InitParse ==
    DepInit /\ OsmInit /\ StartInit /\ TopoInit /\ link_done = FALSE /\ TrackInit
    /\ ParseInit

SpecParse == InitParse /\ [][ParseNext]_vars

-----------------------------------------------------------------------------
(* Properties of the departure sync tick. They are read in the state       *)
(* "applied": the loop over the results has ended and the lock is about to *)
(* be released, so departures is the map after the tick, before the map    *)
(* when the tick began.                                                    *)

(* C1: a fetch error for an IFOPT leaves its map entry exactly as it was   *)
(* before the tick (neither replaced nor removed); and a success that      *)
(* follows an error tick stores its own non-empty list.                    *)
C1_ErrorPreservesEntry ==
    dep_pc = "applied" =>
        \A x \in Fetched(results) :
            LET r == ResultOf(results, x)
                deps == parse_departures(x, r.stop_events, now)
            IN /\ ~r.ok => departures[x] = before[x]
               /\ (r.ok /\ last_outcome[x] = "err" /\ deps # <<>>)
                      => departures[x] = Entry(deps)

(* C1 witness: the second tick of success(L1), error: the fetch for X      *)
(* failed, the previous tick's fetch for X succeeded, and X still holds    *)
(* the list L1, while Y was replaced in the same tick.                     *)
C1_Witness ==
    /\ dep_pc = "applied"
    /\ "X" \in Fetched(results) /\ ~ResultOf(results, "X").ok
    /\ last_outcome["X"] = "ok"
    /\ before["X"] # Absent
    /\ departures["X"] = before["X"]
    /\ "Y" \in Fetched(results) /\ ResultOf(results, "Y").ok
    /\ departures["Y"] # before["Y"]

(* C2: after the tick, an IFOPT whose fetch succeeded holds exactly the    *)
(* parsed list when that list is non-empty (replaced, not merged), and has *)
(* no entry when the parsed list is empty.                                 *)
C2_SuccessReplacesOrRemoves ==
    dep_pc = "applied" =>
        \A x \in Fetched(results) :
            LET r == ResultOf(results, x)
                deps == parse_departures(x, r.stop_events, now)
            IN r.ok => IF deps = <<>>
                       THEN departures[x] = Absent
                       ELSE departures[x] = Entry(deps)

(* C2 witness: X held a list and now holds a different, freshly parsed     *)
(* one; Y held a list, its only returned departure is planned before now,  *)
(* and Y has no entry any more.                                            *)
C2_Witness ==
    /\ dep_pc = "applied"
    /\ Fetched(results) = {"X", "Y"}
    /\ before["X"] # Absent /\ before["Y"] # Absent
    /\ ResultOf(results, "X").ok
    /\ departures["X"] # Absent /\ departures["X"] # before["X"]
    /\ departures["X"] = Entry(parse_departures("X", ResultOf(results, "X").stop_events, now))
    /\ ResultOf(results, "Y") = OkResult(<<EvOnTime>>)
    /\ now > 60
    /\ departures["Y"] = Absent

(* ---- the OSM topology sync ----                                         *)

(* C3: an area sync is all-or-nothing. While the transaction is open the   *)
(* persisted store is the one from before the attempt; after an attempt    *)
(* that failed (at any statement group or at the commit) it still is,      *)
(* last_synced_at included; after a successful attempt it holds every      *)
(* write of the sync; and what a concurrent reader gets at any moment of   *)
(* an attempt is the store from before the attempt or the fully synced     *)
(* one.                                                                    *)
C3_AreaSyncAllOrNothing ==
    /\ osm_pc = "tx" => db = pre
    /\ (osm_pc = "attempt_done" /\ attempt_result = "err") => db = pre
    /\ (osm_pc = "attempt_done" /\ attempt_result = "ok")
           => db = FullySynced(pre, area_idx, payload)
    /\ osm_pc \notin {"idle", "done"}
           => PoolRead(db, tx) \in {pre, FullySynced(pre, area_idx, payload)}

(* C3 witness: an attempt on an area that already holds rows failed at the *)
(* commit, after every statement group had run in the transaction.         *)
C3_Witness ==
    /\ osm_pc = "attempt_done"
    /\ attempt_result = "err"
    /\ tx_opened
    /\ TxSteps[tx_step] = "commit"
    /\ pre[area_idx].last_synced_at # 0
    /\ payload # pre[area_idx].last_synced_at
    /\ db = pre

(* C4: when a run of sync_all_areas ends, sync_area has been called for    *)
(* every configured area; an area is only left behind once the areas       *)
(* before it have been attempted; and a run in progress reaches its end.   *)
C4_EveryAreaAttempted ==
    /\ [](osm_pc = "done" => attempted = Areas)
    /\ [](osm_pc \notin {"idle", "done"} => 1..(area_idx - 1) \subseteq attempted)
    /\ (osm_pc = "loop") ~> (osm_pc = "done")

(* C4 witness: the last area is being attempted after the retry loop of    *)
(* the area before it ended with its fifth failure.                        *)
C4_Witness ==
    /\ area_idx = NumAreas
    /\ last_area_outcome = "failed"
    /\ osm_pc = "request"
    /\ area_idx \in attempted

(* C5: per area at most 5 attempts; the wait after the k-th failure is     *)
(* 30*k seconds and exactly the failures 1..4 are followed by a wait; a    *)
(* successful attempt is the area's last one; the retry loop ends.         *)
C5_AreaRetryLoop ==
    /\ [](attempt <= 5)
    /\ [](area_waits = [k \in 1..Len(area_waits) |-> 30 * k])
    /\ [](Len(area_waits) <= 4)
    /\ [](osm_pc \in {"request", "backoff", "returned", "begin", "tx", "attempt_done"}
            => Len(area_waits) = attempt - 1)
    /\ [](osm_pc = "area_wait" => (attempt_result = "none" /\ Len(area_waits) = attempt - 1))
    /\ [][(osm_pc = "attempt_done" /\ osm_pc' # "attempt_done" /\ attempt_result = "ok")
            => attempt' = 0]_vars
    /\ [][(osm_pc = "attempt_done" /\ osm_pc' # "attempt_done" /\ attempt_result = "err"
             /\ attempt = 5)
            => (attempt' = 0 /\ osm_pc' # "area_wait")]_vars
    /\ [][(osm_pc = "attempt_done" /\ osm_pc' # "attempt_done" /\ attempt_result = "err"
             /\ attempt < 5)
            => osm_pc' = "area_wait"]_vars
    /\ \A a \in Areas :
         (osm_pc = "loop" /\ area_idx = a) ~> (osm_pc = "done" \/ area_idx > a)

(* C5 witness: the fifth attempt of an area has failed after waits of 30,  *)
(* 60, 90 and 120 seconds.                                                 *)
C5_Witness ==
    /\ osm_pc = "attempt_done"
    /\ attempt_result = "err"
    /\ attempt = 5
    /\ area_waits = <<30, 60, 90, 120>>

(* C6: an Overpass call sends at most 3 requests; it waits 5 s before the  *)
(* second and 10 s before the third; it goes on to another request only    *)
(* after a failed one, and returns Ok as soon as a request succeeds; a     *)
(* network fault, a 429 or a 5xx is returned only from the third request.  *)
C6_HttpRetry ==
    /\ requests <= 3
    /\ http_waits \in {<<>>, <<5>>, <<5, 10>>}
    /\ osm_pc = "request" => Len(http_waits) = requests
    /\ osm_pc = "backoff" => (Len(http_waits) = requests - 1
                              /\ last_status \notin {"ok", "ok_bad_json"})
    /\ osm_pc = "returned" =>
         /\ Len(http_waits) = requests - 1
         /\ call_result.ok <=> last_status \in {"ok", "ok_bad_json"}
         /\ last_status \in {"network", "http_429", "http_5xx"} => requests = 3

(* C6 witness: a call returns a retryable error from its third request,    *)
(* having waited 5 s and 10 s.                                             *)
C6_Witness ==
    /\ osm_pc = "returned"
    /\ ~call_result.ok
    /\ last_status = "http_5xx"
    /\ requests = 3
    /\ http_waits = <<5, 10>>

C8_FetchOrderAndAbort ==
    /\ fetch_log = [i \in 1..Len(fetch_log) |-> FetchNames[i]]
    /\ Len(fetch_log) <= 4
    /\ osm_pc \in {"request", "backoff", "returned"} => Len(fetch_log) = fetch_kind
    /\ (osm_pc \in {"begin", "tx"} \/ tx_opened)
           => (fetch_log = <<"stations", "platforms", "stop_positions", "routes">>
               /\ fetch_error = 0)
    /\ fetch_error # 0 =>
         /\ osm_pc = "attempt_done"
         /\ attempt_result = "err"
         /\ Len(fetch_log) = fetch_error
         /\ ~tx_opened
         /\ tx = NoTx
         /\ db = pre

(* C8 witness: the platforms fetch failed after the stations fetch had     *)
(* succeeded; stop positions and routes were never last_fetch.                *)
C8_Witness ==
    /\ osm_pc = "attempt_done"
    /\ attempt_result = "err"
    /\ fetch_error = 2
    /\ fetch_log = <<"stations", "platforms">>
    /\ ~tx_opened

(* ---- start and the periodic tasks ----                                  *)

(* C9: while the sync_all_areas run that start() called is executing,      *)
(* neither periodic task has been spawned and no other run, of either      *)
(* kind, is executing; a task is only ever spawned after that run has      *)
(* returned.                                                               *)
C9_InitialSyncFirst ==
    /\ initial_runs > 0 =>
         /\ osm_task = "unspawned"
         /\ efa_task = "unspawned"
         /\ periodic_runs = 0
         /\ deps_running = 0
         /\ main_pc = "initial_sync"
    /\ (osm_task # "unspawned" \/ efa_task # "unspawned" \/ periodic_runs > 0
        \/ deps_running > 0) => (initial_done /\ initial_runs = 0)
    /\ main_pc \in {"spawn_osm", "spawn_efa", "join"} => initial_done

(* C9 witness: the initial run has returned, both tasks are spawned and a  *)
(* departure sync is running.                                              *)
C9_Witness ==
    /\ initial_done
    /\ initial_runs = 0
    /\ main_pc = "join"
    /\ osm_task # "unspawned"
    /\ deps_running = 1

(* C10: at most one sync_all_departures run and at most one sync_all_areas *)
(* run is executing at any time.                                           *)
C10_NoSelfOverlap ==
    /\ deps_running <= 1
    /\ initial_runs + periodic_runs <= 1
    /\ efa_task = "syncing" <=> deps_running = 1
    /\ osm_task = "syncing" <=> periodic_runs = 1

(* C10 witness: a departure sync and a periodic OSM sync are executing at  *)
(* the same time, with a further departure tick already due.               *)
C10_Witness ==
    /\ deps_running = 1
    /\ periodic_runs = 1
    /\ efa_due > 0

(* C11: the ticks that fell due during a long run are dropped: once a     *)
(* departure run has started, no further run starts before the next 30 s   *)
(* deadline has passed, so two runs never start back to back.              *)
C11_MissedTicksDropped == efa_burst <= 1

(* ---- the topology tables ----                                           *)

(* C12: every platform row with a non-null station_id references a         *)
(* stations row that exists and has the platform's area_id.                *)
C12_PlatformStationExists ==
    \A i \in 1..Len(platforms) :
       platforms[i].station_id # NULL =>
          /\ HasRow(stations, platforms[i].station_id)
          /\ RowOf(stations, platforms[i].station_id).area_id = platforms[i].area_id

(* C13: every stop_positions row with a non-null platform_id references a  *)
(* platforms row that exists, and when that platform's station_id is       *)
(* non-null the stop_position's station_id equals it.                      *)
C13_StopPositionAgreesWithPlatform ==
    \A i \in 1..Len(stop_positions) :
       stop_positions[i].platform_id # NULL =>
          /\ HasRow(platforms, stop_positions[i].platform_id)
          /\ RowOf(platforms, stop_positions[i].platform_id).station_id # NULL
               => stop_positions[i].station_id
                    = RowOf(platforms, stop_positions[i].platform_id).station_id

(* C14: after a successful area sync every persisted route of the area has *)
(* exactly the route_ways and route_stops rows derived from the fetch of   *)
(* that sync: no row of an earlier sync remains, also when the route has   *)
(* fewer members than before or is no longer returned by the fetch.        *)
C14_RouteRowsFromLatestFetch ==
    last_sync.area # 0 =>
      \A i \in 1..Len(routes) :
         routes[i].area_id = last_sync.area =>
           LET id == routes[i].osm_id
               fetched == SelectSeq(last_sync.routes, LAMBDA rt : rt.osm_id = id)
               ways == IF fetched = <<>> THEN <<>> ELSE fetched[Len(fetched)].ways
               stops == IF fetched = <<>> THEN <<>> ELSE fetched[Len(fetched)].stops
               wayRows == SelectSeq(route_ways, LAMBDA r : r.route_id = id)
               stopRows == SelectSeq(route_stops, LAMBDA r : r.route_id = id)
           IN /\ Len(wayRows) = Len(ways)
              /\ \A k \in 1..Len(ways) :
                    /\ wayRows[k].way_osm_id = ways[k].way_osm_id
                    /\ wayRows[k].sequence = ways[k].sequence
              /\ Len(stopRows) = Len(stops)
              /\ \A k \in 1..Len(stops) :
                    /\ stopRows[k].sequence = stops[k].sequence
                    /\ stopRows[k].role = stops[k].role

(* C15: for every sync the program can run next, a platform row that has   *)
(* a station_id and gets no new mapping keeps it through the upsert and    *)
(* through relation resolution, and a platform row upserted with a mapping *)
(* from stop_area membership holds that mapping after relation resolution, *)
(* whichever stations are nearer.                                          *)
C15_FallbackKeepsStation ==
    \A a \in Areas :
    \A sts \in StationLists(a), pls \in PlatformLists(a) :
       LET map == extract_station_platform_mappings(sts)
           st1 == store_stations(stations, sts, a)
           pl1 == store_platforms(platforms, pls, a, map)
           pl2 == LinkPlatforms(pl1, st1, a)
           upserted(id) == \E k \in 1..Len(pls) : pls[k].id = id
       IN \A i \in 1..Len(pl2) :
            /\ (i <= Len(platforms) /\ platforms[i].station_id # NULL
                /\ ~(upserted(pl2[i].osm_id) /\ MappedStation(map, pl2[i].osm_id) # NULL))
                 => pl2[i].station_id = platforms[i].station_id
            /\ (upserted(pl2[i].osm_id) /\ MappedStation(map, pl2[i].osm_id) # NULL)
                 => pl2[i].station_id = MappedStation(map, pl2[i].osm_id)

(* C15 witness: platform 13 holds station 1 while station 3, which is      *)
(* nearer to it, is persisted in the platform's area.                      *)
C15_Witness ==
    /\ HasRow(platforms, 13)
    /\ RowOf(platforms, 13).station_id = 1
    /\ HasRow(stations, 3)
    /\ HasRow(stations, 1)
    /\ RowOf(stations, 3).area_id = RowOf(platforms, 13).area_id
    /\ Dist2(30, 0, RowOf(stations, 3).lat, RowOf(stations, 3).lon)
         < Dist2(30, 0, RowOf(stations, 1).lat, RowOf(stations, 1).lon)

(* C16: after resolution step 1, the platform with null station_id holds  *)
(* the station of its area with the smallest squared distance among those  *)
(* strictly below 0.005^2 (2500 in squared units of 0.0001 degree), the    *)
(* first in row order among equally near ones; it stays null exactly when  *)
(* no station of the area is strictly within the threshold.                *)
C16_NearestStationWithinThreshold ==
    link_done =>
      LET p == platforms[1]
          d(i) == (p.lat - stations[i].lat) * (p.lat - stations[i].lat)
                  + (p.lon - stations[i].lon) * (p.lon - stations[i].lon)
          near == { i \in 1..Len(stations) : stations[i].area_id = 1 /\ d(i) < 2500 }
      IN /\ near = {} <=> p.station_id = NULL
         /\ near # {} =>
              \E i \in near :
                 /\ p.station_id = stations[i].osm_id
                 /\ \A j \in near : d(i) <= d(j)
                 /\ \A j \in near : j < i => d(j) > d(i)
         /\ \A i \in 1..Len(stations) :
              (stations[i].area_id = 1 /\ d(i) = 2500 /\ near = {}) => p.station_id = NULL

(* C16 witness: step 1 has run for a platform with an equally near pair of *)
(* stations within the threshold, a station exactly at the threshold and   *)
(* listed first, and the platform is linked to the first of the pair.      *)
C16_Witness ==
    /\ link_done
    /\ Len(stations) = 3
    /\ platforms[1].lat = 0 /\ platforms[1].lon = 0
    /\ \A i \in 1..3 : stations[i].area_id = 1
    /\ <<stations[1].lat, stations[1].lon>> = <<30, 40>>
    /\ <<stations[2].lat, stations[2].lon>> = <<20, 0>>
    /\ <<stations[3].lat, stations[3].lon>> = <<0, -20>>
    /\ platforms[1].station_id = 2

-----------------------------------------------------------------------------
(* Properties of the vehicle position tracker. They are read between two   *)
(* calls of update: trams and positions are the maps the last tick left,   *)
(* last_update is its now, snapshot its vehicles argument.                 *)

(* C17: at the end of every tracker tick no tracked vehicle has status     *)
(* InDepot (a vehicle unseen for more than an hour has been removed), so   *)
(* get_stats reports an in_depot count of 0.                               *)
C17_NoTrackedInDepot ==
    /\ \A v \in VehicleIds :
         trams[v] # Untracked => trams[v][1].status # "InDepot"
    /\ get_stats(trams)[4] = 0

(* A tick has removed a vehicle that was tracked and not in the feed,      *)
(* while another vehicle stays tracked.                                    *)
C17_Witness ==
    \E v, w \in VehicleIds :
       /\ seen_before[v] # None
       /\ snapshot[v] = NotInFeed
       /\ num_minutes(last_update - seen_before[v][1]) > 60
       /\ trams[v] = Untracked
       /\ trams[w] # Untracked

(* C18: every position emitted for an EnRoute vehicle has                  *)
(* 0 <= progress <= 1, and progress is (now - last.departure) /            *)
(* (next.arrival - last.departure) clamped to [0,1] when the denominator   *)
(* is positive and 0 otherwise; departure T0, arrival T0 + 120 s and now   *)
(* T0 + 30 s give 0.25.                                                    *)
C18_ProgressInUnitInterval ==
    \A v \in VehicleIds :
       (trams[v] # Untracked /\ trams[v][1].status = "EnRoute"
          /\ positions[v] # None) =>
         LET p == positions[v][1].progress
             departure == trams[v][1].last_confirmed_stop[1].departure_time[1]
             arrival == trams[v][1].next_confirmed_stop[1].arrival_time
             elapsed == last_update - departure
             total == arrival - departure
         IN /\ p[2] > 0
            /\ 0 <= p[1]
            /\ p[1] <= p[2]
            /\ IF total <= 0 \/ elapsed <= 0 THEN p[1] = 0
               ELSE IF elapsed >= total THEN p[1] = p[2]
               ELSE p[1] * total = elapsed * p[2]
            /\ (elapsed = 30 /\ total = 120) => 4 * p[1] = p[2]

(* An EnRoute vehicle 30 s after its departure and 120 s of travel ahead   *)
(* has a position with progress one quarter.                               *)
C18_Witness ==
    \E v \in VehicleIds :
       /\ trams[v] # Untracked
       /\ trams[v][1].status = "EnRoute"
       /\ positions[v] # None
       /\ last_update - trams[v][1].last_confirmed_stop[1].departure_time[1] = 30
       /\ trams[v][1].next_confirmed_stop[1].arrival_time
            - trams[v][1].last_confirmed_stop[1].departure_time[1] = 120
       /\ 4 * positions[v][1].progress[1] = positions[v][1].progress[2]

(* C19: a tracked vehicle that is in the snapshot with a parseable planned *)
(* departure gets, with D the whole minutes of (now - planned), status     *)
(* AtStation when D < -5 and EnRoute for any other D; planned = now - 5    *)
(* min and planned = now + 5 min exactly both give EnRoute.                *)
C19_StatusFromPlannedDeparture ==
    \A v \in VehicleIds :
       (seen_before[v] # None /\ snapshot[v] # NotInFeed
          /\ snapshot[v][1].last_departure_planned # None) =>
         LET planned == snapshot[v][1].last_departure_planned[1]
             D == num_minutes(last_update - planned)
         IN /\ trams[v] # Untracked
            /\ D < -5 => trams[v][1].status = "AtStation"
            /\ D >= -5 => trams[v][1].status = "EnRoute"
            /\ planned = last_update - 300 => trams[v][1].status = "EnRoute"
            /\ planned = last_update + 300 => trams[v][1].status = "EnRoute"

(* A vehicle tracked before the tick was refreshed with a planned          *)
(* departure exactly five minutes ahead and is EnRoute.                    *)
C19_Witness ==
    \E v \in VehicleIds :
       /\ seen_before[v] # None
       /\ snapshot[v] # NotInFeed
       /\ snapshot[v][1].last_departure_planned = Some(last_update + 300)
       /\ trams[v] # Untracked
       /\ trams[v][1].status = "EnRoute"

(* C20: after every tick whose snapshot contains a vehicle with planned    *)
(* departure 6 minutes in the future at stop S and next stop T, whether or *)
(* not the vehicle was tracked before, the vehicle is AtStation and the    *)
(* positions of that tick hold a position for it with progress 0 from S    *)
(* to T.                                                                   *)
C20_WaitingVehicleHasPosition ==
    \A v \in VehicleIds :
       (snapshot[v] # NotInFeed
          /\ snapshot[v][1].last_departure_planned = Some(last_update + 360)
          /\ snapshot[v][1].current_stop_id = "S"
          /\ snapshot[v][1].next_stop_id = Some("T")) =>
         /\ trams[v] # Untracked
         /\ trams[v][1].status = "AtStation"
         /\ positions[v] # None
         /\ positions[v][1].progress[1] = 0
         /\ positions[v][1].from_station_id = "S"
         /\ positions[v][1].to_station_id = "T"

C22_UnseenVehicleRemoved ==
    \A v \in VehicleIds :
       /\ (seen_before[v] # None /\ snapshot[v] = NotInFeed
             /\ last_update - seen_before[v][1] >= 3660) =>
            (trams[v] = Untracked /\ positions[v] = None)
       /\ (trams[v] # Untracked /\ snapshot[v] = NotInFeed) =>
            last_update - trams[v][1].last_seen_in_feed < 3660
       /\ trams[v] = Untracked => positions[v] = None

(* The third tick comes 3660 s after the vehicle was last seen (it was     *)
(* kept by the tick 30 s earlier) and removes it.                          *)
C22_Witness ==
    \E v \in VehicleIds :
       /\ ticks = 3
       /\ seen_before[v] # None
       /\ snapshot[v] = NotInFeed
       /\ last_update - seen_before[v][1] = 3660
       /\ trams[v] = Untracked
       /\ positions[v] = None

-----------------------------------------------------------------------------
(* Properties of the tracker's geometry handling, read between two calls   *)
(* of update like the ones above.                                          *)

(* C24: when the line of an AtStation or EnRoute vehicle with both         *)
(* confirmed stops has no geometry, the tick still emits a position for    *)
(* it, with an empty geometry_segment and the progress the anchors give:   *)
(* 0 at the station, the clamped time fraction en route.                   *)
C24_PositionWithoutGeometry ==
    \A v \in VehicleIds :
       (/\ trams[v] # Untracked
        /\ trams[v][1].status \in {"AtStation", "EnRoute"}
        /\ trams[v][1].last_confirmed_stop # None
        /\ trams[v][1].next_confirmed_stop # None
        /\ trams[v][1].line_number \notin DOMAIN LineGeometries) =>
         LET departure == trams[v][1].last_confirmed_stop[1].departure_time[1]
             arrival == trams[v][1].next_confirmed_stop[1].arrival_time
             elapsed == last_update - departure
             total == arrival - departure
         IN /\ positions[v] # None
            /\ positions[v][1].geometry_segment = <<>>
            /\ LET p == positions[v][1].progress
               IN IF trams[v][1].status = "AtStation" \/ total <= 0 \/ elapsed <= 0
                  THEN p[1] = 0
                  ELSE IF elapsed >= total THEN p[1] = p[2]
                  ELSE p[1] * total = elapsed * p[2]

(* A vehicle on the line without geometry is half way between its stops    *)
(* and has a position with an empty segment.                               *)
C24_Witness ==
    \E v \in VehicleIds :
       /\ trams[v] # Untracked
       /\ trams[v][1].status = "EnRoute"
       /\ trams[v][1].line_number \notin DOMAIN LineGeometries
       /\ positions[v] # None
       /\ positions[v][1].geometry_segment = <<>>
       /\ 2 * positions[v][1].progress[1] = positions[v][1].progress[2]

(* C25: when a vehicle's data is missing (a stop IFOPT unknown to the      *)
(* coordinate lookup, no geometry for its line, or a stop that matches no  *)
(* polyline point within 500 m), the tick emits no position for it.        *)
C25_NoPositionWhenDataMissing ==
    \A v \in VehicleIds :
       (/\ trams[v] # Untracked
        /\ trams[v][1].last_confirmed_stop # None
        /\ trams[v][1].next_confirmed_stop # None
        /\ LET line == trams[v][1].line_number
               from == lookup_station_coordinates(
                         trams[v][1].last_confirmed_stop[1].stop_id)
               to == lookup_station_coordinates(
                       trams[v][1].next_confirmed_stop[1].stop_id)
           IN \/ from = <<0, 0>>
              \/ to = <<0, 0>>
              \/ line \notin DOMAIN LineGeometries
              \/ find_closest_point_index(Concatenate(LineGeometries[line]),
                                          from, 500) = None
              \/ find_closest_point_index(Concatenate(LineGeometries[line]),
                                          to, 500) = None) =>
         positions[v] = None

(* C26: extract_geometry_segment between stops A and B, with i and j the   *)
(* polyline indices matched to A and B in the concatenated segments,       *)
(* returns polyline[i..j] in order if i < j, polyline[j..i] reversed (so   *)
(* from polyline[i] to polyline[j]) if i > j, and [A, B] if i = j; it      *)
(* returns nothing if the line has no geometry, a coordinate is [0, 0] or  *)
(* a stop has no polyline point nearer than 500 m.                         *)
C26_SegmentBetweenStops ==
    ex_result # None =>
      LET result == ex_result[1]
          A == lookup_station_coordinates(ex_input.from_station_id)
          B == lookup_station_coordinates(ex_input.to_station_id)
          polyline == IF ex_input.segments = None THEN <<>>
                      ELSE ex_input.segments[1][1] \o ex_input.segments[1][2]
          dist(k, c) == haversine_distance(polyline[k], c)
          Matched(k, c) ==
             /\ dist(k, c) < 500
             /\ \A m \in 1..Len(polyline) :
                   dist(m, c) > dist(k, c) \/ (dist(m, c) = dist(k, c) /\ m >= k)
          HasMatch(c) == \E k \in 1..Len(polyline) : Matched(k, c)
      IN IF \/ ex_input.segments = None
            \/ A = <<0, 0>>
            \/ B = <<0, 0>>
            \/ ~HasMatch(A)
            \/ ~HasMatch(B)
         THEN result = <<>>
         ELSE \A i, j \in 1..Len(polyline) :
                (Matched(i, A) /\ Matched(j, B)) =>
                  /\ i < j =>
                       /\ Len(result) = j - i + 1
                       /\ \A k \in 1..Len(result) : result[k] = polyline[i + k - 1]
                  /\ i > j =>
                       /\ Len(result) = i - j + 1
                       /\ \A k \in 1..Len(result) : result[k] = polyline[i - k + 1]
                  /\ i = j => result = <<A, B>>

(* A call against the direction of the polyline: the stops match the third *)
(* and the first point, and the result runs from the third to the first.   *)
C26_Witness ==
    /\ ex_result # None
    /\ ex_input.segments # None
    /\ ex_input.from_station_id = "U"
    /\ ex_input.to_station_id = "S"
    /\ ex_input.segments[1] = << << <<1000, 1000>>, <<1500, 1000>> >>,
                                 << <<1800, 1000>> >> >>
    /\ ex_result[1] = << <<1800, 1000>>, <<1500, 1000>>, <<1000, 1000>> >>

-----------------------------------------------------------------------------
(* Properties of parse_departures.                                         *)

(* C27: every departure parse_departures returns, and so every departure   *)
(* the departure map holds, had a planned time not before the now of the   *)
(* tick that fetched it: a stop event planned strictly before now is       *)
(* discarded and one planned exactly at now is kept. Stated when a tick    *)
(* has applied its results: an entry the tick did not write is the one     *)
(* from before the tick, and an entry it wrote holds no planned instant    *)
(* before now, none of the events planned before now and all of the        *)
(* complete events planned at or after now.                                *)
C27_NoPastDeparture ==
    dep_pc = "applied" =>
      \A i \in Ifopts :
        IF i \in Fetched(results) /\ ResultOf(results, i).ok
        THEN LET evs == ResultOf(results, i).stop_events
                 held == IF departures[i] = Absent THEN <<>> ELSE departures[i][1]
                 Complete(e) == /\ e.line_number # None
                                /\ e.destination # None
                                /\ e.planned_departure # None
                 HeldFrom(e) ==
                     \E k \in DOMAIN held :
                        /\ held[k].line_number = e.line_number[1]
                        /\ held[k].destination = e.destination[1]
                        /\ held[k].planned_departure = e.planned_departure[1]
             IN /\ \A k \in DOMAIN held :
                     LET p == parse_from_rfc3339(held[k].planned_departure)
                     IN p.ok => p.dt >= now
                /\ \A n \in DOMAIN evs :
                     (Complete(evs[n]) /\ evs[n].planned_departure[1].rfc3339) =>
                       IF evs[n].planned_departure[1].secs < now
                       THEN ~HeldFrom(evs[n])
                       ELSE HeldFrom(evs[n])
        ELSE departures[i] = before[i]

(* A tick whose now is 60 has stored a departure planned at 60.            *)
C27_Witness ==
    /\ dep_pc = "applied"
    /\ now = 60
    /\ \E i \in Ifopts :
         /\ i \in Fetched(results)
         /\ departures[i] # Absent
         /\ \E k \in DOMAIN departures[i][1] :
              departures[i][1][k].planned_departure = Ts(60)

(* C28: delay_minutes is null when the estimated timestamp is missing;     *)
(* when both timestamps exist it is (estimated - planned) in seconds       *)
(* divided by 60 and floored: 0 for planned = estimated, 1 for 90 s late,  *)
(* floor(-1.5) = -2 for 90 s early.                                        *)
C28_DelayFloored ==
    \A i \in Ifopts :
      departures[i] # Absent =>
        \A k \in DOMAIN departures[i][1] :
          LET d == departures[i][1][k]
              p == parse_from_rfc3339(d.planned_departure)
          IN IF d.estimated_departure = None
             THEN d.delay_minutes = None
             ELSE LET e == parse_from_rfc3339(d.estimated_departure[1])
                  IN (p.ok /\ e.ok) =>
                        d.delay_minutes = Some((e.dt - p.dt) \div 60)

-----------------------------------------------------------------------------
(* C29: extract_station_platform_mappings maps a member id to a station id *)
(* only when the station element is a relation and the member's role is    *)
(* platform or stop: members with another role or none, and members of     *)
(* node or way elements, produce no mapping, and every mapping points to a *)
(* relation that contains the member. Every platform or stop member of a   *)
(* relation is mapped.                                                     *)
C29_MappingsFromRelationMembers ==
    mp_result # None =>
      LET map == mp_result[1]
          Maps(e, ref) ==
              /\ e.element_type = "relation"
              /\ \E k \in DOMAIN e.members :
                    /\ e.members[k].member_ref = ref
                    /\ e.members[k].role \in {Some("platform"), Some("stop")}
      IN /\ \A ref \in DOMAIN map :
              \E n \in DOMAIN mp_input :
                 mp_input[n].id = map[ref] /\ Maps(mp_input[n], ref)
         /\ \A n \in DOMAIN mp_input, ref \in {12, 13} :
              Maps(mp_input[n], ref) => ref \in DOMAIN map

(* A relation with a platform member and a member without role, followed   *)
(* by a way with a stop member: only the relation's platform is mapped.    *)
C29_Witness ==
    /\ mp_result # None
    /\ mp_input = << Element(1, "relation", Some(<<0, 0>>),
                             <<Member(12, Some("platform")), Member(13, None)>>),
                     Element(2, "way", Some(<<0, 0>>),
                             <<Member(13, Some("stop"))>>) >>
    /\ DOMAIN mp_result[1] = {12}
    /\ mp_result[1][12] = 1

-----------------------------------------------------------------------------
(* C30: after a refresh with next stop T at distance d from the current    *)
(* stop, next_confirmed_stop.arrival_time is planned + d / (20 km/h)       *)
(* without rounding to whole minutes (0.18 s per metre: 72 s for 400 m),   *)
(* and its departure_time is none.                                         *)
C30_ArrivalNotRounded ==
    \A v \in VehicleIds :
       (seen_before[v] # None /\ snapshot[v] # NotInFeed
          /\ snapshot[v][1].last_departure_planned # None
          /\ snapshot[v][1].next_stop_id # None) =>
         LET planned == snapshot[v][1].last_departure_planned[1]
             d == haversine_distance(
                     lookup_station_coordinates(snapshot[v][1].current_stop_id),
                     lookup_station_coordinates(snapshot[v][1].next_stop_id[1]))
         IN /\ trams[v] # Untracked
            /\ trams[v][1].next_confirmed_stop # None
            /\ trams[v][1].next_confirmed_stop[1].stop_id
                  = snapshot[v][1].next_stop_id[1]
            /\ trams[v][1].next_confirmed_stop[1].departure_time = None
            /\ 100 * trams[v][1].next_confirmed_stop[1].arrival_time
                  = 100 * planned + 18 * d

-----------------------------------------------------------------------------
(* Properties of relation resolution.                                      *)

(* C31: the resolution steps consume each other's output within one sync:  *)
(* after a successful area sync, a fetched stop_position without stop_area *)
(* mapping and with null platform_id (and no station_id left from an       *)
(* earlier sync) that lies strictly within the 0.0005^2 threshold of a     *)
(* platform of the area has the nearest such platform as platform_id, and  *)
(* if that platform has a station_id, from membership or from the spatial  *)
(* fallback of the same sync, the stop_position has the same station_id.   *)
C31_StepsConsumeOutputs ==
    LET map == extract_station_platform_mappings(last_fetch.stations)
        sps == last_fetch.stop_positions
    IN \A n \in DOMAIN sps :
         (sps[n].id \notin DOMAIN map /\ sps[n].id \in last_fetch.fresh) =>
            LET r == RowOf(stop_positions, sps[n].id)
                d2(i) == Dist2(r.lat, r.lon, platforms[i].lat, platforms[i].lon)
                near == { i \in 1..Len(platforms) :
                            /\ platforms[i].area_id = last_fetch.area
                            /\ d2(i) < platform_threshold }
            IN near # {} =>
                 \E i \in near :
                    /\ r.platform_id = platforms[i].osm_id
                    /\ \A j \in near : d2(i) <= d2(j)
                    /\ platforms[i].station_id # NULL =>
                         r.station_id = platforms[i].station_id

(* Stop position 22, in no stop_area, is linked to platform 13, and both   *)
(* carry station 3, which platform 13 can only have from the fallback.     *)
C31_Witness ==
    /\ HasRow(stop_positions, 22)
    /\ RowOf(stop_positions, 22).platform_id = 13
    /\ RowOf(stop_positions, 22).station_id = 3
    /\ HasRow(platforms, 13)
    /\ RowOf(platforms, 13).station_id = 3
    /\ last_fetch.runs = "one"
    /\ 22 \in last_fetch.fresh

(* C32: after relation resolution every route_stop of a route in the area  *)
(* whose stop_position_id refers to a stored stop_position has that        *)
(* stop_position's platform_id and station_id, except when that            *)
(* platform_id is null and the stop_position_id is the osm_id of a stored  *)
(* platform: then platform_id = stop_position_id and station_id is that    *)
(* platform's; route_stops of routes in other areas are unchanged.         *)
C32_RouteStopsResolved ==
    [][last_fetch' # last_fetch =>
         LET a == last_fetch'.area
             Elsewhere(r) == ~RouteInArea(routes', r.route_id, a)
         IN /\ \A i \in DOMAIN route_stops' :
                 LET rs == route_stops'[i]
                 IN (/\ RouteInArea(routes', rs.route_id, a)
                     /\ rs.stop_position_id # NULL
                     /\ HasRow(stop_positions', rs.stop_position_id)) =>
                      LET sp == RowOf(stop_positions', rs.stop_position_id)
                      IN IF sp.platform_id = NULL
                            /\ HasRow(platforms', rs.stop_position_id)
                         THEN /\ rs.platform_id = rs.stop_position_id
                              /\ rs.station_id
                                   = RowOf(platforms', rs.stop_position_id).station_id
                         ELSE /\ rs.platform_id = sp.platform_id
                              /\ rs.station_id = sp.station_id
            /\ SelectSeq(route_stops', Elsewhere) = SelectSeq(route_stops, Elsewhere)
    ]_vars

(* Node 14 is stored as a platform of one area and as a stop position,     *)
(* without platform, of the other; the route_stop at 14 refers to the      *)
(* platform 14 and carries its station_id.                                 *)
C32_Witness ==
    /\ HasRow(stop_positions, 14)
    /\ RowOf(stop_positions, 14).platform_id = NULL
    /\ HasRow(platforms, 14)
    /\ RowOf(platforms, 14).station_id # NULL
    /\ \E i \in DOMAIN route_stops :
          /\ route_stops[i].stop_position_id = 14
          /\ route_stops[i].platform_id = 14
          /\ route_stops[i].station_id = RowOf(platforms, 14).station_id
          /\ RouteInArea(routes, route_stops[i].route_id, last_fetch.area)

-----------------------------------------------------------------------------
(* C33: route resolution gives each recorded way and stop the index of its *)
(* member in the route relation, counted over all member kinds: within a   *)
(* route the sequence numbers of ways and stops are pairwise distinct and  *)
(* increase in member order; a way member with role platform, and a way    *)
(* none of whose nodes resolves, produce no RouteWay; unresolved nodes are *)
(* skipped inside a geometry; only node members with role stop, platform   *)
(* or empty produce a RouteStop.                                           *)
C33_SequenceOverAllMembers ==
    pr_result # None =>
      LET relation == pr_input[2]
          ms == relation.members
          Coord(n) == IF n = 1 THEN pr_input[1].coord ELSE pr_input[3].coord
          node_ids == pr_input[4].nodes[1]
          good == SelectSeq(node_ids, LAMBDA n : Coord(n) # None)
          geometry == [i \in 1..Len(good) |->
                         <<Coord(good[i])[1][2], Coord(good[i])[1][1]>>]
          WayMember(k) == /\ ms[k].member_type = "way"
                          /\ ms[k].role # Some("platform")
                          /\ ms[k].member_ref = 101
                          /\ good # <<>>
          StopMember(k) == /\ ms[k].member_type = "node"
                           /\ ms[k].role \in {Some("stop"), Some("platform"),
                                              Some(""), None}
      IN IF relation.type_tag # Some("route") THEN pr_result[1] = <<>>
         ELSE /\ Len(pr_result[1]) = 1
              /\ LET ways == pr_result[1][1].ways
                     stops == pr_result[1][1].stops
                 IN /\ \A i \in DOMAIN ways :
                         LET k == ways[i].sequence + 1
                         IN /\ k \in DOMAIN ms
                            /\ WayMember(k)
                            /\ ways[i].way_osm_id = ms[k].member_ref
                            /\ ways[i].geometry = geometry
                    /\ \A i \in DOMAIN stops :
                         LET k == stops[i].sequence + 1
                         IN /\ k \in DOMAIN ms
                            /\ StopMember(k)
                            /\ stops[i].osm_id = ms[k].member_ref
                    /\ \A k \in DOMAIN ms :
                         /\ WayMember(k) =>
                              \E i \in DOMAIN ways : ways[i].sequence = k - 1
                         /\ StopMember(k) =>
                              \E i \in DOMAIN stops : stops[i].sequence = k - 1
                    /\ \A i, j \in DOMAIN ways :
                         i < j => ways[i].sequence < ways[j].sequence
                    /\ \A i, j \in DOMAIN stops :
                         i < j => stops[i].sequence < stops[j].sequence
                    /\ \A i \in DOMAIN ways, j \in DOMAIN stops :
                         ways[i].sequence # stops[j].sequence

(* A route whose members are a relation, way 101 and node 21 without role, *)
(* node 1 of the way being unresolved: the way is recorded with sequence 1 *)
(* and the geometry of node 2 alone, the stop with sequence 2.             *)
C33_Witness ==
    /\ pr_result # None
    /\ pr_input[1].coord = None
    /\ pr_input[4].nodes = Some(<<1, 2>>)
    /\ pr_input[2].members = << RouteMember("relation", 5, None),
                                RouteMember("way", 101, Some("forward")),
                                RouteMember("node", 21, None) >>
    /\ pr_result[1] = << OsmRoute(31,
                           <<RouteWayWithGeometry(101, 1, << <<21, 20>> >>)>>,
                           <<RouteStop(21, 2, "")>>) >>

-----------------------------------------------------------------------------
(* C34: the departure sync holds the writer lock only while applying the   *)
(* results of one tick: the fetches have finished before it is taken, no   *)
(* fetch or database call happens while it is held, and it is taken once   *)
(* per tick; a reader sees the map of before the tick's changes or the map *)
(* after all of them, never a partly applied tick, and is never blocked    *)
(* while an HTTP request is under way.                                     *)
C34_LockOnlyWhileApplying ==
    /\ [](/\ store_lock = "writer" => dep_pc \in {"locked", "applied"}
          /\ dep_pc \in {"locked", "applied"} => store_lock = "writer"
          /\ store_lock = "reader" =>
               \/ dep_pc = "idle"
               \/ departures = before
               \/ departures = ApplyResults(before, results, now))
    /\ [][/\ (store_lock # "writer" /\ store_lock' = "writer") =>
               (dep_pc = "fetched" /\ dep_pc' = "locked")
          /\ (store_lock = "writer" /\ store_lock' # "writer") => dep_pc' = "idle"
          /\ store_lock = "writer" =>
               (results' = results \/ store_lock' = "free")
         ]_vars

(* Under the writer lock the first of two results has been applied: the    *)
(* map is neither the one before the tick nor the one after it.            *)
C34_Witness ==
    /\ store_lock = "writer"
    /\ dep_pc = "locked"
    /\ dep_applied = 1
    /\ Len(results) = 2
    /\ departures # before
    /\ departures # ApplyResults(before, results, now)

-----------------------------------------------------------------------------
(* C35: a tracked vehicle refreshed with a planned departure more than 5   *)
(* minutes after now by less than a whole minute (5 min 30 s ahead, say)   *)
(* gets status AtStation.                                                  *)
C35_FractionOfMinuteWaits ==
    \A v \in VehicleIds :
       (seen_before[v] # None /\ snapshot[v] # NotInFeed
          /\ snapshot[v][1].last_departure_planned # None) =>
         LET planned == snapshot[v][1].last_departure_planned[1]
         IN (planned - last_update > 300 /\ planned - last_update < 360) =>
              /\ trams[v] # Untracked
              /\ trams[v][1].status = "AtStation"

(* C36: at the end of every tick no vehicle contained in the tick's        *)
(* snapshot is Stale: a vehicle marked Stale while absent leaves Stale in  *)
(* the tick in which it reappears, also when its last_departure_planned    *)
(* cannot be parsed.                                                       *)
C36_SeenVehicleNotStale ==
    \A v \in VehicleIds :
       (snapshot[v] # NotInFeed /\ trams[v] # Untracked) =>
          trams[v][1].status # "Stale"

(* C37: after a tracked vehicle is refreshed from a feed entry with a      *)
(* parseable departure, its next_confirmed_stop matches the entry: its     *)
(* stop_id is the entry's next_stop_id, or it is absent when the entry     *)
(* reports no next stop; no position is emitted toward a stop the feed no  *)
(* longer reports.                                                         *)
C37_NextStopFromFeedEntry ==
    \A v \in VehicleIds :
       (seen_before[v] # None /\ snapshot[v] # NotInFeed
          /\ snapshot[v][1].last_departure_planned # None) =>
         /\ trams[v] # Untracked
         /\ IF snapshot[v][1].next_stop_id = None
            THEN /\ trams[v][1].next_confirmed_stop = None
                 /\ positions[v] = None
            ELSE /\ trams[v][1].next_confirmed_stop # None
                 /\ trams[v][1].next_confirmed_stop[1].stop_id
                       = snapshot[v][1].next_stop_id[1]

-----------------------------------------------------------------------------
(* C38: an area sync is idempotent: a successful sync_area run a second    *)
(* time in a row on identical OSM data leaves stations, platforms,         *)
(* stop_positions, routes, route_ways and route_stops, with all their      *)
(* station_id, platform_id and stop_position_id links, as they were after  *)
(* the first run.                                                          *)
C38_SyncAreaIdempotent ==
    [][(last_fetch.runs # "again" /\ last_fetch'.runs = "again") =>
          UNCHANGED <<stations, platforms, stop_positions, routes, route_ways,
                      route_stops>>]_vars

(* A sync that stored a platform linked by the fallback, a stop position   *)
(* linked to it and the route with a resolved stop has been repeated.      *)
C38_Witness ==
    /\ last_fetch.runs = "again"
    /\ last_fetch.routes = <<Rt32>>
    /\ HasRow(platforms, 13)
    /\ RowOf(platforms, 13).station_id = 3
    /\ HasRow(stop_positions, 22)
    /\ RowOf(stop_positions, 22).platform_id = 13
    /\ \E i \in DOMAIN route_stops :
          route_stops[i].stop_position_id = 22 /\ route_stops[i].platform_id = 13

(* C39: after a successful area sync, a route_stop whose route member node *)
(* is a stored platform and not a stored stop_position has platform_id     *)
(* equal to that platform's osm_id and station_id equal to that platform's *)
(* station_id.                                                             *)
C39_DirectPlatformStopResolved ==
    \A r \in 1..Len(last_fetch.routes) :
       \A k \in 1..Len(last_fetch.routes[r].stops) :
          LET route == last_fetch.routes[r]
              stop == route.stops[k]
          IN (/\ last_fetch.runs # "none"
              /\ HasRow(platforms, stop.osm_id)
              /\ ~HasRow(stop_positions, stop.osm_id)) =>
                \A i \in DOMAIN route_stops :
                   (/\ route_stops[i].route_id = route.osm_id
                    /\ route_stops[i].sequence = stop.sequence) =>
                      /\ route_stops[i].platform_id = stop.osm_id
                      /\ route_stops[i].station_id
                            = RowOf(platforms, stop.osm_id).station_id

-----------------------------------------------------------------------------
(* C40: after any sequence of departure sync ticks, with any mix of        *)
(* successes, empty results, errors and early returns, no key of the       *)
(* departure map maps to an empty list; an entry is removed only by a      *)
(* successful fetch of its own IFOPT whose parsed list is empty; and a     *)
(* step of a tick other than the application of the fetched results, the   *)
(* early returns included, leaves the map unchanged.                       *)
C40_NoEmptyEntry ==
    /\ [](\A i \in Ifopts : departures[i] # Absent => departures[i][1] # <<>>)
    /\ [][/\ \A i \in Ifopts :
               (departures[i] # Absent /\ departures'[i] = Absent) =>
                  /\ i \in Fetched(results)
                  /\ ResultOf(results, i).ok
                  /\ parse_departures(i, ResultOf(results, i).stop_events, now) = <<>>
          /\ (dep_pc # "locked" \/ dep_pc' # "applied") => UNCHANGED departures]_vars

(* A tick has removed the entry of X after a successful fetch whose events *)
(* were all discarded, and kept the entry of Y whose fetch failed.         *)
C40_Witness ==
    /\ dep_pc = "applied"
    /\ Fetched(results) = {"X", "Y"}
    /\ before["X"] # Absent /\ before["Y"] # Absent
    /\ ResultOf(results, "X").ok
    /\ ResultOf(results, "X").stop_events # <<>>
    /\ departures["X"] = Absent
    /\ ~ResultOf(results, "Y").ok
    /\ departures["Y"] = before["Y"]


=============================================================================
